---- MODULE Spec2Model ----
(***************************************************************************)
(* A model of the Overture datastore (O.Store and its source callbacks),   *)
(* written from source/datastore/store/Store.js.                           *)
(*                                                                         *)
(* The store is one JavaScript object whose methods run to completion on   *)
(* the run loop.  Every method is modelled by an operator on a record S    *)
(* holding the store's tables; S.err is set when the method throws, and    *)
(* every later step of the same method is then skipped, which leaves the   *)
(* tables as the JavaScript exception leaves them.                         *)
(***************************************************************************)
EXTENDS Integers, Sequences, FiniteSets, TLC

\* ------------------------------------------------------------------ bounds
\* Number of store keys generateStoreKey may mint.
MaxKeys == 2
\* Number of calls the application and the source make of their own accord in
\* one behaviour; what the commit pipeline does in answer is not counted.
MaxSteps == 4
\* A WindowedQuery: the store keys its updates name, the largest index an
\* update adds at, the largest total, the longest list, and the window size
\* (30 by default).
MaxQKeys == 2
MaxIndex == 3
MaxTotal == 4
MaxList == 4
WindowSize == 2
\* The query with its source: the records (store keys 1..MaxSourceKeys) the
\* source's packets and deltas name, and the preemptive updates and the
\* waiting packets outstanding at once.
MaxSourceKeys == 4
MaxPreemptive == 2
MaxWaiting == 1
\* The store keys one update removes, and the store keys it adds, in the
\* updates a composition is tried on.
MaxChange == 1
\* The browser windows that are opened, each with its WindowController.
MaxWindows == 3

\* --------------------------------------------------------------- universes
\* Store keys 'k1', 'k2', ... are modelled by their numbers; 0 is "no key"
\* (undefined, or the '' stored in _created/_destroyed).
K == 1..MaxKeys
Accounts == {"A", "B"}
\* Record ids handed out by the source; NoId is the undefined id of a record
\* that was minted without one.
Ids == {"x", "y"}
NoId == ""
\* State tokens of the (account, type); NoState is the unset token.
States == {"s1", "s2"}
NoState == ""
\* Attribute keys of the one record type: "a" is a synced attribute, "n" is
\* declared noSync, "accountId" is the implicit account field of the data.
AttrKeys == {"a", "n"}
AllKeys == AttrKeys \cup {"accountId"}
Values == {"v1", "v2"}
Null == "null"
\* A key that is not in an object.
Absent == "absent"
\* The JavaScript value undefined where a data object is expected.
Undef == [k \in AllKeys |-> "undefined"]
\* The object {}.
EmptyObj == [k \in AllKeys |-> Absent]

\* Status.js bits, as a set of names; the empty set is the number 0, which
\* is also what an entry missing from _skToStatus reads as.
EMPTY == "EMPTY"
READY == "READY"
DESTROYED == "DESTROYED"
NON_EXISTENT == "NON_EXISTENT"
LOADING == "LOADING"
COMMITTING == "COMMITTING"
\* NEW is a reserved word of TLA+.
NEWBIT == "NEW"
DIRTY == "DIRTY"
OBSOLETE == "OBSOLETE"
CoreBits == {EMPTY, READY, DESTROYED, NON_EXISTENT}

\* The commit the source holds: the store keys of each kind it has still to
\* answer for, and the accounts whose change entry it was given.
NoInflight == [create |-> {}, update |-> {}, destroy |-> {}, entries |-> <<>>]
\* The changes object commitChanges builds: the store keys of create.storeKeys
\* and update.storeKeys, the (storeKey, id) pairs of the destroy entries, the
\* moveFromAccount items, the originals whose destroy a move stands for, and
\* the accounts that got an entry.
NoSent == [create |-> {}, update |-> {}, destroy |-> {}, move |-> {},
           moved |-> {}, entries |-> <<>>]

VARIABLES
    nextStoreKey,    \* generateStoreKey's counter
    accounts,        \* keys of store._accounts
    skToType,        \* _skToType: "T" once the key is minted, "" before
    skToAccountId,   \* _skToAccountId
    skToId,          \* _typeToSKToId[T]
    idToSK,          \* _accounts[acct].typeToIdToSK[T]
    typeStatus,      \* _accounts[acct].status[T]
    clientState,     \* _accounts[acct].clientState[T]
    serverState,     \* _accounts[acct].serverState[T]
    skToStatus,      \* _skToStatus
    skToData,        \* _skToData
    skToChanged,     \* _skToChanged, in insertion order
    skToCommitted,   \* _skToCommitted
    skToRollback,    \* _skToRollback
    skToRecord,      \* _skToRecord: is a record instance materialised
    hasObs,          \* does that record instance have observers
    skToLastAccess,  \* _skToLastAccess: is there a timestamp
    created,         \* _created, in insertion order
    destroyed,       \* _destroyed, in insertion order
    isCommitting,    \* store.isCommitting
    autoCommit,      \* store.autoCommit
    rebaseConflicts, \* store.rebaseConflicts
    commitQueued,    \* commitChanges is waiting in the run loop's queue
    fetching,        \* fetchAllRecords calls the source has not finished
    pushed,          \* the state the source announced while the type was
                     \* busy and that no fetchAllRecords has asked for yet
    inflight,        \* what the source holds of the commit it was handed
    openCommits,     \* source.commitChanges calls whose done has not fired
    sent,            \* the change set of the latest source.commitChanges
    last,            \* the handler that ran last, with its arguments/result
    steps,           \* handler invocations so far
    storeKeys,       \* a WindowedQuery's _storeKeys: 0 is a hole of the array
    windows,         \* its _windows: the status bits of each window
    length,          \* its length property (0 also stands for null)
    queryState,      \* its queryState property ("" is undefined)
    queryStatus,     \* its status property
    preemptiveUpdates, \* its _preemptiveUpdates
    waitingPackets,  \* its _waitingPackets
    updatedEvents,   \* query:updated events fired by the latest call
    beforePreemptives, \* the list and length when the oldest outstanding
                     \* preemptive update was made, while no packet and no
                     \* update of the source has changed the list since
    localQuery,      \* a LocalQuery on the store: its status and _storeKeys
    wcs,             \* the WindowControllers of the browser's windows
    localStorage     \* localStorage[broadcastKey], which they share

\* The store's tables: all of the store but last and steps.
storeTables == <<nextStoreKey, accounts, skToType, skToAccountId, skToId,
                 idToSK, typeStatus, clientState, serverState, skToStatus,
                 skToData, skToChanged, skToCommitted, skToRollback,
                 skToRecord, hasObs, skToLastAccess, created, destroyed,
                 isCommitting, autoCommit, rebaseConflicts, commitQueued,
                 fetching, pushed, inflight, openCommits, sent>>
storeVars == <<nextStoreKey, accounts, skToType, skToAccountId, skToId, idToSK,
               typeStatus, clientState, serverState, skToStatus, skToData,
               skToChanged, skToCommitted, skToRollback, skToRecord, hasObs,
               skToLastAccess, created, destroyed, isCommitting, autoCommit,
               rebaseConflicts, commitQueued, fetching, pushed, inflight,
               openCommits, sent, last, steps>>
vars == <<nextStoreKey, accounts, skToType, skToAccountId, skToId, idToSK,
          typeStatus, clientState, serverState, skToStatus, skToData, skToChanged, skToCommitted,
          skToRollback, skToRecord, hasObs, skToLastAccess, created,
          destroyed, isCommitting, autoCommit, rebaseConflicts, commitQueued,
          fetching, pushed, inflight, openCommits, sent, last, steps,
          storeKeys, windows, length, queryState, queryStatus,
          preemptiveUpdates, waitingPackets, updatedEvents,
               beforePreemptives, localQuery, wcs, localStorage>>
queryVars == <<storeKeys, windows, length, queryState, queryStatus,
               preemptiveUpdates, waitingPackets, updatedEvents,
               beforePreemptives>>

\* The LocalQuery and the WindowControllers, which the store's methods and the
\* WindowedQuery's do not touch.
sideVars == <<localQuery, wcs, localStorage>>

\* No list is remembered as the one before the preemptive updates.
NoBefore == [known |-> FALSE, storeKeys |-> <<>>, length |-> 0]

\* The store as one value, for the operators that model its methods.
Store == [nextStoreKey |-> nextStoreKey, accounts |-> accounts,
          skToType |-> skToType, skToAccountId |-> skToAccountId,
          skToId |-> skToId, idToSK |-> idToSK, typeStatus |-> typeStatus,
          clientState |-> clientState, serverState |-> serverState,
          skToStatus |-> skToStatus, skToData |-> skToData,
          skToChanged |-> skToChanged, skToCommitted |-> skToCommitted,
          skToRollback |-> skToRollback, skToRecord |-> skToRecord,
          hasObs |-> hasObs, skToLastAccess |-> skToLastAccess,
          created |-> created, destroyed |-> destroyed,
          isCommitting |-> isCommitting, autoCommit |-> autoCommit,
          rebaseConflicts |-> rebaseConflicts, commitQueued |-> commitQueued,
          fetching |-> fetching, pushed |-> pushed,
          inflight |-> inflight, openCommits |-> openCommits, sent |-> sent,
          changes |-> NoSent, err |-> FALSE, didErr |-> "", ret |-> FALSE,
          key |-> 0, over |-> FALSE]

\* ------------------------------------------------- insertion-ordered maps
\* A JavaScript object used as a map from store key to value, kept as the
\* sequence of its entries in for-in order.
Has(m, sk) == \E i \in DOMAIN m : m[i].sk = sk
Val(m, sk) == (CHOOSE e \in {m[i] : i \in DOMAIN m} : e.sk = sk).v
Put(m, sk, v) ==
    IF Has(m, sk)
    THEN [i \in DOMAIN m |-> IF m[i].sk = sk THEN [sk |-> sk, v |-> v] ELSE m[i]]
    ELSE Append(m, [sk |-> sk, v |-> v])
Del(m, sk) == SelectSeq(m, LAMBDA e : e.sk # sk)
KeysOf(m) == {m[i].sk : i \in DOMAIN m}

\* ---------------------------------------------------------------- objects
IsDef(d) == d # Undef
HasKey(d, k) == d[k] # Absent
\* Object.assign(a, b)
Assign(a, b) == [k \in AllKeys |-> IF HasKey(b, k) THEN b[k] ELSE a[k]]
\* filterObject(d, include)
FilterObject(d, include) == [k \in AllKeys |-> IF k \in include THEN d[k] ELSE Absent]
\* Object.keys(d)
ObjKeys(d) == {k \in AllKeys : HasKey(d, k)}

\* Record.getClientSettableAttributes(Type): the attributes not noSync.
ClientSettable == {"a"}

\* _skToChanged[sk] maps a key to true/false; NoMark is "key not present".
NoMark == "none"
NoChanged == [k \in AllKeys |-> NoMark]
ChangedKeys(c) == {k \in AllKeys : c[k] # NoMark}

\* ------------------------------------------------------------ small steps
\* An exception leaves the method: nothing after it runs.
Throw(S) == [S EXCEPT !.err = TRUE]
\* didError(...) reports and returns.
DidError(S, name) == [S EXCEPT !.didErr = name]

\* this.commitChanges(): the method is declared .queue('middle'), so a call
\* puts it on the run loop's queue (once) instead of running it.
QueueCommit(S) == IF S.err THEN S ELSE [S EXCEPT !.commitQueued = TRUE]
AutoCommitCall(S) == IF S.autoCommit THEN QueueCommit(S) ELSE S

GetStatus(S, sk) == IF S.skToStatus[sk] = {} THEN {EMPTY} ELSE S.skToStatus[sk]
SetStatus(S, sk, status) ==
    IF S.err \/ GetStatus(S, sk) = status THEN S
    ELSE [S EXCEPT !.skToStatus[sk] = status]

\* A lookup that does not look at the NEW bit.
IdEvenIfNew(S, sk) == S.skToId[sk]
\* getIdFromStoreKey(storeKey); NoId is the null it returns.
GetIdFromStoreKey(S, sk) ==
    IF NEWBIT \in S.skToStatus[sk] THEN NoId ELSE S.skToId[sk]

GetAccountIdFromStoreKey(S, sk) ==
    IF IsDef(S.skToData[sk]) THEN S.skToData[sk]["accountId"]
    ELSE S.skToAccountId[sk]

\* getStoreKey(accountId, Type, id): S.key is the store key returned.
GetStoreKey(S, acct, id) ==
    IF S.err THEN S
    ELSE IF acct \notin S.accounts THEN Throw(S)
    ELSE IF id # NoId /\ S.idToSK[acct][id] # 0
    THEN [S EXCEPT !.key = S.idToSK[acct][id]]
    \* The model has no store key left to mint: the step is not taken.
    ELSE IF S.nextStoreKey > MaxKeys THEN [S EXCEPT !.err = TRUE, !.over = TRUE]
    ELSE LET sk == S.nextStoreKey IN
         [S EXCEPT !.nextStoreKey = sk + 1,
                   !.skToType[sk] = "T",
                   !.skToAccountId[sk] = acct,
                   !.skToId[sk] = id,
                   !.idToSK[acct] = IF id # NoId
                                    THEN [S.idToSK[acct] EXCEPT ![id] = sk]
                                    ELSE S.idToSK[acct],
                   !.key = sk]
\* A memory manager that asks nobody.
MayAlwaysUnload(S, sk) == TRUE
\* mayUnloadRecord(storeKey)
MayUnloadRecord(S, sk) ==
    /\ GetStatus(S, sk) \cap {COMMITTING, NEWBIT, DIRTY} = {}
    /\ ~(S.skToRecord[sk] /\ S.hasObs[sk])

\* A store that never unloads.
NeverUnload(S, sk) == IF S.err THEN S ELSE [S EXCEPT !.ret = FALSE]
\* An unloadRecord that forgets the data table.
UnloadKeepsData(S, sk) ==
    IF S.err THEN S
    ELSE IF ~MayUnloadRecord(S, sk) THEN [S EXCEPT !.ret = FALSE]
    ELSE [S EXCEPT !.skToLastAccess[sk] = FALSE,
                   !.skToRecord[sk] = FALSE,
                   !.hasObs[sk] = FALSE,
                   !.skToRollback[sk] = Undef,
                   !.skToStatus[sk] = {},
                   !.ret = TRUE]

\* unloadRecord(storeKey): S.ret is its result.
UnloadRecord(S, sk) ==
    IF S.err THEN S
    ELSE IF ~MayUnloadRecord(S, sk) THEN [S EXCEPT !.ret = FALSE]
    ELSE [S EXCEPT !.skToLastAccess[sk] = FALSE,
                   !.skToRecord[sk] = FALSE,
                   !.hasObs[sk] = FALSE,
                   !.skToRollback[sk] = Undef,
                   !.skToData[sk] = Undef,
                   !.skToStatus[sk] = {},
                   !.ret = TRUE]

\* The body of updateData's loop over the keys of the patch: the new data.
Patched(current, data) ==
    [k \in AllKeys |-> IF IsDef(data) /\ HasKey(data, k) THEN data[k] ELSE current[k]]
\* The keys the loop writes: those whose value is not isEqual to the old one.
Written(current, data) ==
    IF IsDef(data) THEN {k \in AllKeys : HasKey(data, k) /\ data[k] # current[k]}
    ELSE {}

\* An updateData that takes the committed data as it finds it.
CommittedAsIs(S, sk) == S.skToCommitted[sk]
\* _skToCommitted[storeKey] || (_skToCommitted[storeKey] = clone(current))
CommittedOrClone(S, sk) ==
    IF IsDef(S.skToCommitted[sk]) THEN S.skToCommitted[sk] ELSE S.skToData[sk]

\* updateData(storeKey, data, changeIsDirty): S.ret is its result.
UpdateData(S, sk, data, changeIsDirty) ==
    IF S.err THEN S
    ELSE
    LET status == GetStatus(S, sk)
        current == S.skToData[sk]
        isNewDirty == status = {READY, NEWBIT, DIRTY}
    IN
    IF ~IsDef(current) \/ (changeIsDirty /\ READY \notin status)
    THEN [DidError(S, "CANNOT_WRITE_TO_UNREADY_RECORD") EXCEPT !.ret = FALSE]
    ELSE
    LET committed == CommittedOrClone(S, sk)
        changed0 == IF Has(S.skToChanged, sk) THEN Val(S.skToChanged, sk)
                    ELSE NoChanged
        written == Written(current, data)
        changed == [k \in AllKeys |->
                       IF k \in written
                       THEN (IF data[k] # committed[k] THEN "true" ELSE "false")
                       ELSE changed0[k]]
        seenChange == \E k \in AllKeys : changed[k] = "true"
        S1 == IF changeIsDirty /\ ~isNewDirty
              THEN IF seenChange
                   THEN AutoCommitCall(
                          [S EXCEPT !.skToData[sk] = Patched(current, data),
                                    !.skToCommitted[sk] = committed,
                                    !.skToChanged = Put(S.skToChanged, sk, changed),
                                    !.skToStatus[sk] = status \cup {DIRTY}])
                   ELSE [S EXCEPT !.skToData[sk] = Patched(current, data),
                                  !.skToCommitted[sk] = Undef,
                                  !.skToChanged = Del(S.skToChanged, sk),
                                  !.skToStatus[sk] = status \ {DIRTY}]
              ELSE [S EXCEPT !.skToData[sk] = Patched(current, data)]
    IN
    \* const accountId = data.accountId
    IF ~IsDef(data) THEN Throw(S1)
    ELSE [S1 EXCEPT !.skToAccountId[sk] =
                        IF isNewDirty /\ HasKey(data, "accountId")
                        THEN data["accountId"] ELSE @,
                    !.ret = TRUE]

\* setData(storeKey, data)
SetData(S, sk, data) ==
    IF S.err THEN S
    ELSE IF READY \in GetStatus(S, sk) THEN UpdateData(S, sk, data, FALSE)
    \* Object.keys(data)
    ELSE IF ~IsDef(data) THEN Throw(S)
    ELSE [S EXCEPT !.skToData[sk] = data]

\* revertData(storeKey)
RevertData(S, sk) ==
    IF S.err THEN S
    ELSE
    LET committed == S.skToCommitted[sk]
        changed == IF Has(S.skToChanged, sk) THEN Val(S.skToChanged, sk)
                   ELSE NoChanged
        missing == {k \in ChangedKeys(changed) : ~HasKey(committed, k)}
        \* No attribute of the type declares a defaultValue, so null is used.
        filled == [k \in AllKeys |-> IF k \in missing THEN Null ELSE committed[k]]
    IN
    IF ~IsDef(committed) THEN S
    \* proto[attrs[attrKey]] is undefined for a key that is no attribute.
    ELSE IF missing \ AttrKeys # {} THEN Throw(S)
    ELSE UpdateData([S EXCEPT !.skToCommitted[sk] = filled], sk, filled, TRUE)

\* A createRecord without its status check.
CreateOverExisting(S, sk, data, isCopyOfStoreKey) ==
    IF S.err THEN S
    ELSE AutoCommitCall(
           [S EXCEPT !.created = Put(S.created, sk, isCopyOfStoreKey),
                     !.skToData[sk] =
                         [(IF IsDef(data) THEN data ELSE EmptyObj)
                            EXCEPT !["accountId"] = GetAccountIdFromStoreKey(S, sk)],
                     !.skToStatus[sk] = {READY, NEWBIT, DIRTY}])

\* createRecord(storeKey, data, _isCopyOfStoreKey)
CreateRecord(S, sk, data, isCopyOfStoreKey) ==
    IF S.err THEN S
    ELSE
    LET status == GetStatus(S, sk)
        d0 == IF IsDef(data) THEN data ELSE EmptyObj
        d1 == [d0 EXCEPT !["accountId"] = GetAccountIdFromStoreKey(S, sk)]
    IN
    IF status # {EMPTY} /\ status # {DESTROYED}
    THEN DidError(S, "CANNOT_CREATE_EXISTING_RECORD")
    ELSE AutoCommitCall(
           [S EXCEPT !.created = Put(S.created, sk, isCopyOfStoreKey),
                     !.skToData[sk] = d1,
                     !.skToStatus[sk] = {READY, NEWBIT, DIRTY}])

\* destroyRecord(storeKey, _ifCopiedStoreKey)
DestroyRecord(S, sk, ifCopiedStoreKey) ==
    IF S.err THEN S
    ELSE
    LET status == GetStatus(S, sk) IN
    IF status = {READY, NEWBIT, DIRTY}
    THEN UnloadRecord(
           SetStatus([S EXCEPT !.created = Del(S.created, sk)], sk, {DESTROYED}),
           sk)
    ELSE IF READY \in status
    THEN LET S1 == IF DIRTY \in status
                   THEN LET S2 == SetData(S, sk, S.skToCommitted[sk]) IN
                        IF S2.err THEN S2
                        ELSE [S2 EXCEPT !.skToCommitted[sk] = Undef,
                                        !.skToChanged = Del(S2.skToChanged, sk)]
                   ELSE S
         IN IF S1.err THEN S1
            ELSE AutoCommitCall(
                   [S1 EXCEPT !.destroyed = Put(S1.destroyed, sk, ifCopiedStoreKey),
                              !.skToStatus[sk] =
                                  {DESTROYED, DIRTY}
                                  \cup (status \cap {COMMITTING, NEWBIT, OBSOLETE})])
    ELSE S

\* undestroyRecord(storeKey, Type, data, _isCopyOfStoreKey)
UndestroyRecord(S, sk, data, isCopyOfStoreKey) ==
    IF S.err THEN S
    ELSE
    LET status == GetStatus(S, sk)
        d == IF IsDef(data) THEN FilterObject(data, ClientSettable) ELSE Undef
    IN
    IF status = {EMPTY} \/ status = {DESTROYED}
    THEN CreateRecord(S, sk, d, isCopyOfStoreKey)
    ELSE
    LET S1 == IF status \ {OBSOLETE, LOADING} = {DESTROYED, COMMITTING}
              THEN [S EXCEPT !.skToStatus[sk] = {READY, NEWBIT, COMMITTING},
                             !.created = Put(S.created, sk, isCopyOfStoreKey)]
              ELSE IF DESTROYED \in status
              THEN [S EXCEPT !.skToStatus[sk] =
                                 (status \ {DESTROYED, DIRTY}) \cup {READY},
                             !.destroyed = Del(S.destroyed, sk)]
              ELSE S
    IN IF IsDef(d) THEN UpdateData(S1, sk, d, TRUE) ELSE S1

\* _changeRecordStoreKey(oldStoreKey, newStoreKey)
ChangeRecordStoreKey(S, old, new) ==
    IF S.err \/ ~S.skToRecord[old] THEN S
    ELSE [S EXCEPT !.skToRecord = [@ EXCEPT ![old] = FALSE, ![new] = TRUE],
                   !.hasObs = [@ EXCEPT ![old] = FALSE, ![new] = S.hasObs[old]]]

\* A move that re-files the record under the other account.
MoveInPlace(S, sk, toAccountId, copyStoreKey) ==
    IF S.err THEN S
    ELSE [S EXCEPT !.skToAccountId[sk] = toAccountId, !.key = sk]

\* moveRecord(storeKey, toAccountId, copyStoreKey): S.key is the copy.
MoveRecord(S, sk, toAccountId, copyStoreKey) ==
    IF S.err THEN S
    ELSE
    LET copyData == S.skToData[sk]
        given == IF copyStoreKey # 0 THEN copyStoreKey
                 ELSE IF Has(S.created, sk) THEN Val(S.created, sk) ELSE 0
        S1 == IF given # 0
              THEN [UndestroyRecord(S, given, copyData, sk) EXCEPT !.key = given]
              ELSE LET G == GetStoreKey(S, toAccountId, NoId) IN
                   CreateRecord(G, G.key, copyData, sk)
    IN IF S1.err THEN S1
       ELSE DestroyRecord(
              RevertData(ChangeRecordStoreKey(S1, sk, S1.key), sk), sk, S1.key)

\* ----------------------------------------------------------- commitChanges
\* getChanged(Type, a, b): the client-settable keys of a whose value differs
\* in b.  Reading b[key] throws when b is undefined.
GetChangedThrows(a, b) ==
    IsDef(a) /\ ~IsDef(b) /\ \E k \in ClientSettable : HasKey(a, k)
GetChanged(a, b) ==
    IF ~IsDef(a) THEN {}
    ELSE {k \in ClientSettable : HasKey(a, k) /\ a[k] # b[k]}

\* getEntry(Type, accountId) inside commitChanges: account.clientState
\* throws for an account that is not in _accounts; otherwise the type is
\* marked COMMITTING in the account and the entry exists from now on.
GetEntry(S, acct) ==
    IF S.err THEN S
    ELSE IF acct \notin S.accounts THEN Throw(S)
    ELSE [S EXCEPT !.typeStatus[acct] = @ \cup {COMMITTING},
                   !.changes.entries =
                       IF \E i \in DOMAIN @ : @[i] = acct THEN @
                       ELSE Append(@, acct)]

\* One pass of "for (const storeKey in _created)".
CommitCreated(S, e) ==
    IF S.err THEN S
    ELSE
    LET sk == e.sk
        isCopyOfStoreKey == e.v
        status == S.skToStatus[sk]
        data == S.skToData[sk]
    IN
    IF ~IsDef(data) THEN Throw(S)
    ELSE
    LET S1 == GetEntry(S, data["accountId"]) IN
    IF S1.err THEN S1
    ELSE IF isCopyOfStoreKey # 0
    THEN IF GetChangedThrows(data, S.skToData[isCopyOfStoreKey]) THEN Throw(S1)
         ELSE [S1 EXCEPT
                 !.changes.move = @ \cup
                     {[sk |-> sk, from |-> isCopyOfStoreKey,
                       toAccount |-> data["accountId"],
                       fromAccount |-> GetAccountIdFromStoreKey(S, isCopyOfStoreKey),
                       copyFromId |-> GetIdFromStoreKey(S, isCopyOfStoreKey),
                       changes |-> GetChanged(data, S.skToData[isCopyOfStoreKey])]},
                 !.skToStatus[sk] = (status \ {DIRTY}) \cup {COMMITTING}]
    ELSE [S1 EXCEPT !.changes.create = @ \cup {sk},
                       !.skToStatus[sk] = (status \ {DIRTY}) \cup {COMMITTING}]

\* A commit that keeps nothing to roll back to.
NoPrevious(S, sk) == Undef
\* let previous = _skToCommitted[storeKey]
Previous(S, sk) == S.skToCommitted[sk]

\* One pass of "for (const storeKey in _skToChanged)".
CommitChanged(S, e) ==
    IF S.err THEN S
    ELSE
    LET sk == e.sk
        status == S.skToStatus[sk]
        changed == ChangedKeys(e.v) \cap ClientSettable
        previous == Previous(S, sk)
        S0 == [S EXCEPT !.skToCommitted[sk] = Undef]
        data == S.skToData[sk]
    IN
    IF changed = {} THEN SetStatus(S0, sk, status \ {DIRTY})
    ELSE IF ~IsDef(data) THEN Throw(S0)
    ELSE
    LET S1 == GetEntry(S0, data["accountId"]) IN
    IF S1.err THEN S1
    ELSE [S1 EXCEPT !.skToRollback[sk] = previous,
                    !.changes.update = @ \cup {sk},
                    !.skToStatus[sk] = (status \ {DIRTY}) \cup {COMMITTING}]

\* Is the destroy of this entry already part of a moveFromAccount create?
HandledByMove(S, e) ==
    e.v # 0 /\ Has(S.created, e.v) /\ Val(S.created, e.v) # 0

\* One pass of "for (const storeKey in _destroyed)".
CommitDestroyed(S, e) ==
    IF S.err THEN S
    ELSE
    LET sk == e.sk
        status == S.skToStatus[sk]
        done == (status \ {DIRTY}) \cup {COMMITTING}
    IN
    IF HandledByMove(S, e)
    THEN [S EXCEPT !.changes.moved = @ \cup {sk},
                   !.skToStatus[sk] = done]
    ELSE IF ~IsDef(S.skToData[sk]) THEN Throw(S)
    ELSE
    LET S1 == GetEntry(S, S.skToData[sk]["accountId"]) IN
    IF S1.err THEN S1
    ELSE [S1 EXCEPT !.changes.destroy = @ \cup {[sk |-> sk, id |-> S.skToId[sk]]},
                    !.skToStatus[sk] = done]

\* The three loops, each over the entries in for-in order.
RECURSIVE CommitLoop(_, _, _, _)
CommitLoop(S, m, i, kind) ==
    IF i > Len(m) THEN S
    ELSE CommitLoop(
           CASE kind = "created" -> CommitCreated(S, m[i])
             [] kind = "changed" -> CommitChanged(S, m[i])
             [] OTHER -> CommitDestroyed(S, m[i]),
           m, i + 1, kind)

\* A commitChanges without the guard.
NeverBlocked(S) == FALSE
\* The guard at the top of commitChanges.
CommitBlocked(S) == S.isCommitting

\* source.commitChanges(changes, done): the source now holds the commit and
\* owes the store one answer for every store key in it, then the done call.
SourceCommitChanges(S) ==
    [S EXCEPT !.sent = S.changes,
              !.openCommits = @ + 1,
              !.inflight =
                  [create |-> @.create \cup S.changes.create
                                 \cup {m.sk : m \in S.changes.move},
                   update |-> @.update \cup S.changes.update,
                   destroy |-> @.destroy \cup {d.sk : d \in S.changes.destroy}
                                  \cup S.changes.moved,
                   entries |-> @.entries \o S.changes.entries]]

\* The body of commitChanges, as the run loop runs it from its queue.
CommitChanges(S) ==
    IF CommitBlocked(S) THEN S
    ELSE
    LET S0 == [S EXCEPT !.isCommitting = TRUE, !.changes = NoSent]
        S1 == CommitLoop(S0, S0.created, 1, "created")
        S2 == CommitLoop(S1, S1.skToChanged, 1, "changed")
        S3 == CommitLoop(S2, S2.destroyed, 1, "destroyed")
    IN
    IF S3.err THEN S3
    ELSE
    LET S4 == [S3 EXCEPT !.skToChanged = <<>>, !.created = <<>>,
                         !.destroyed = <<>>]
    IN
    IF S4.changes.entries # <<>>
    THEN SourceCommitChanges(S4)
    ELSE [S4 EXCEPT !.isCommitting = FALSE]

\* checkForChanges().get('hasChanges')
HasChanges(S) == S.created # <<>> \/ S.skToChanged # <<>> \/ S.destroyed # <<>>

\* ----------------------------------------------------------- discardChanges
RECURSIVE DiscardLoop(_, _, _, _)
DiscardLoop(S, m, i, kind) ==
    IF i > Len(m) THEN S
    ELSE LET sk == m[i].sk IN
         DiscardLoop(
           CASE kind = "created" -> DestroyRecord(S, sk, 0)
             [] kind = "changed" -> UpdateData(S, sk, S.skToCommitted[sk], TRUE)
             [] OTHER -> UndestroyRecord(S, sk, S.skToData[sk], 0),
           m, i + 1, kind)

\* discardChanges()
DiscardChanges(S) ==
    LET S1 == DiscardLoop(S, S.created, 1, "created")
        S2 == DiscardLoop(S1, S1.skToChanged, 1, "changed")
        S3 == DiscardLoop(S2, S2.destroyed, 1, "destroyed")
    IN IF S3.err THEN S3
       ELSE [S3 EXCEPT !.created = <<>>, !.destroyed = <<>>]

\* ------------------------------------------------------ fetching and state
\* fetchData(storeKey)
FetchData(S, sk) ==
    IF S.err THEN S
    ELSE
    LET status == GetStatus(S, sk) IN
    IF status \cap {LOADING, NEWBIT, DESTROYED, NON_EXISTENT} # {} THEN S
    ELSE IF S.skToType[sk] = "" \/ S.skToId[sk] = NoId THEN S
    ELSE IF EMPTY \in status THEN SetStatus(S, sk, {EMPTY, LOADING})
    ELSE SetStatus(S, sk, status \cup {LOADING})

\* fetchAll(accountId, Type, force)
FetchAll(S, acct, force) ==
    IF S.err THEN S
    ELSE IF acct \notin S.accounts THEN Throw(S)
    ELSE IF LOADING \notin S.typeStatus[acct]
            /\ (READY \notin S.typeStatus[acct] \/ force)
    THEN [S EXCEPT !.fetching = @ \cup {[acct |-> acct, obj |-> acct,
                                         since |-> S.clientState[acct]]},
                   !.pushed[acct] = NoState,
                   !.typeStatus[acct] = @ \cup {LOADING}]
    ELSE S

\* sourceStateDidChange(accountId, Type, newState)
SourceStateDidChange(S, acct, newState) ==
    IF S.err THEN S
    ELSE IF acct \notin S.accounts THEN Throw(S)
    ELSE
    LET client == S.clientState[acct]
        oldState == S.serverState[acct]
    IN
    IF oldState = newState THEN S
    ELSE
    LET S1 == [S EXCEPT !.serverState[acct] =
                            IF oldState # NoState \/ client = NoState
                            THEN newState ELSE client]
    IN
    IF newState # client
       /\ S.typeStatus[acct] \cap {LOADING, COMMITTING} = {}
       /\ client # NoState
    THEN FetchAll(S1, acct, TRUE)
    ELSE S1

\* checkServerState(accountId, Type)
CheckServerState(S, acct) ==
    IF S.err THEN S
    ELSE IF acct \notin S.accounts THEN Throw(S)
    ELSE IF S.serverState[acct] # NoState
    THEN SourceStateDidChange([S EXCEPT !.serverState[acct] = NoState],
                              acct, S.serverState[acct])
    ELSE S

\* The done callback commitChanges hands to the source.
RECURSIVE DoneLoop(_, _, _)
DoneLoop(S, entries, i) ==
    IF i > Len(entries) \/ S.err THEN S
    ELSE IF entries[i] \notin S.accounts THEN Throw(S)
    ELSE DoneLoop(
           CheckServerState(
             [S EXCEPT !.typeStatus[entries[i]] = @ \ {COMMITTING}], entries[i]),
           entries, i + 1)

CommitDone(S) ==
    LET S1 == DoneLoop(S, S.inflight.entries, 1) IN
    IF S1.err THEN S1
    ELSE LET S2 == [S1 EXCEPT !.isCommitting = FALSE] IN
         IF S2.autoCommit /\ HasChanges(S2) THEN QueueCommit(S2) ELSE S2

\* ---------------------------------------------- source callbacks: commits
\* Each callback is modelled for a list of one store key.

\* sourceDidCommitCreate({storeKey: {id: id}})
SourceDidCommitCreate(S, sk, id) ==
    LET status == GetStatus(S, sk)
        data == S.skToData[sk]
    IN
    IF NEWBIT \in status
    THEN IF ~IsDef(data) \/ data["accountId"] \notin S.accounts THEN Throw(S)
         ELSE AutoCommitCall(
                SetStatus(
                  UpdateData(
                    [S EXCEPT !.skToId[sk] = id,
                              !.idToSK[data["accountId"]][id] = sk],
                    sk, EmptyObj, FALSE),
                  sk, status \ {COMMITTING, NEWBIT}))
    ELSE AutoCommitCall(DidError(S, "SOURCE_COMMIT_CREATE_MISMATCH"))

\* sourceDidNotCreate([storeKey], isPermanent, errors); prevented says that
\* errors were passed and a record:commit:error listener prevented the default.
SourceDidNotCreate(S, sk, isPermanent, prevented) ==
    LET status == GetStatus(S, sk) IN
    IF DESTROYED \in status
    THEN AutoCommitCall(UnloadRecord(SetStatus(S, sk, {DESTROYED}), sk))
    ELSE
    LET S1 == IF DIRTY \in status
              THEN [S EXCEPT !.skToCommitted[sk] = Undef,
                             !.skToChanged = Del(S.skToChanged, sk)]
              ELSE S
        S2 == [S1 EXCEPT !.skToStatus[sk] = {READY, NEWBIT, DIRTY},
                         !.created = Put(S1.created, sk, 0)]
    IN AutoCommitCall(IF isPermanent /\ ~prevented
                      THEN DestroyRecord(S2, sk, 0) ELSE S2)

\* sourceDidCommitUpdate([storeKey])
SourceDidCommitUpdate(S, sk) ==
    LET status == GetStatus(S, sk)
        S1 == [S EXCEPT !.skToRollback[sk] = Undef]
    IN AutoCommitCall(IF status # {EMPTY}
                      THEN SetStatus(S1, sk, status \ {COMMITTING}) ELSE S1)

\* sourceDidNotUpdate([storeKey], isPermanent, errors)
SourceDidNotUpdate(S, sk, isPermanent, prevented) ==
    LET status == GetStatus(S, sk)
        S0 == IF DESTROYED \in status /\ IsDef(S.skToRollback[sk])
              THEN [S EXCEPT !.skToData[sk] = S.skToRollback[sk],
                             !.skToRollback[sk] = Undef]
              ELSE S
    IN
    IF READY \notin status
    THEN AutoCommitCall(IF status # {EMPTY}
                        THEN SetStatus(S0, sk, status \ {COMMITTING}) ELSE S0)
    ELSE
    LET committed == S0.skToRollback[sk]
        current == S0.skToData[sk]
        S1 == [S0 EXCEPT !.skToCommitted[sk] = committed,
                         !.skToRollback[sk] = Undef,
                         !.skToChanged = Del(S0.skToChanged, sk)]
        changed == GetChanged(current, committed)
    IN
    IF GetChangedThrows(current, committed) THEN Throw(S1)
    ELSE
    LET S2 == IF changed # {}
              THEN [S1 EXCEPT
                      !.skToChanged =
                          Put(S1.skToChanged, sk,
                              [k \in AllKeys |->
                                  IF k \in changed THEN "true" ELSE NoMark]),
                      !.skToStatus[sk] = (status \ {COMMITTING}) \cup {DIRTY}]
              ELSE SetStatus(S1, sk, status \ {COMMITTING})
    IN AutoCommitCall(IF isPermanent /\ ~prevented
                      THEN RevertData(S2, sk) ELSE S2)

\* sourceDidCommitDestroy([storeKey])
SourceDidCommitDestroy(S, sk) ==
    LET status == GetStatus(S, sk) IN
    AutoCommitCall(
      IF status \ {DIRTY} = {READY, NEWBIT, COMMITTING}
      THEN SetStatus(
             IF DIRTY \in status
             THEN [S EXCEPT !.skToCommitted[sk] = Undef,
                            !.skToChanged = Del(S.skToChanged, sk)]
             ELSE S,
             sk, {READY, NEWBIT, DIRTY})
      ELSE IF DESTROYED \in status
      THEN UnloadRecord(SetStatus(S, sk, {DESTROYED}), sk)
      ELSE DidError(S, "SOURCE_COMMIT_DESTROY_MISMATCH"))

\* A failure callback that clears COMMITTING and forgets the destroy.
DidNotDestroyForgets(S, sk, isPermanent, prevented) ==
    AutoCommitCall([S EXCEPT !.skToStatus[sk] = @ \ {COMMITTING}])

\* sourceDidNotDestroy([storeKey], isPermanent, errors)
SourceDidNotDestroy(S, sk, isPermanent, prevented) ==
    LET status == GetStatus(S, sk) IN
    AutoCommitCall(
      IF status \ {DIRTY} = {READY, NEWBIT, COMMITTING}
      THEN [S EXCEPT !.skToStatus[sk] = status \ {COMMITTING, NEWBIT},
                     !.created = Del(S.created, sk)]
      ELSE IF DESTROYED \in status
      THEN LET S1 == [S EXCEPT
                        !.skToStatus[sk] = (status \ {COMMITTING}) \cup {DIRTY},
                        !.destroyed = Put(S.destroyed, sk, 0)]
           IN IF isPermanent /\ ~prevented
              THEN UndestroyRecord(S1, sk, Undef, 0) ELSE S1
      ELSE DidError(S, "SOURCE_COMMIT_DESTROY_MISMATCH"))

\* ---------------------------------------------- source callbacks: fetches
\* sourceDidDestroyRecords(accountId, Type, [id])
SourceDidDestroyRecords(S, acct, id) ==
    LET G == GetStoreKey(S, acct, id) IN
    IF G.err THEN G
    ELSE IF GetIdFromStoreKey(G, G.key) = id /\ id # NoId
    THEN UnloadRecord(SetStatus(G, G.key, {DESTROYED}), G.key)
    ELSE G

\* sourceDidModifyRecords(accountId, Type, [id])
\* A callback that marks no record.
ModifyMarksNothing(S, acct, id) == S
SourceDidModifyRecords(S, acct, id) ==
    LET G == GetStoreKey(S, acct, id) IN
    IF G.err THEN G
    ELSE IF READY \in GetStatus(G, G.key)
    THEN SetStatus(G, G.key, GetStatus(G, G.key) \cup {OBSOLETE})
    ELSE G

\* sourceCouldNotFindRecords(accountId, Type, [id])
SourceCouldNotFindRecords(S, acct, id) ==
    LET G == GetStoreKey(S, acct, id)
        sk == G.key
        status == GetStatus(G, sk)
    IN
    IF G.err THEN G
    ELSE IF status \cap {EMPTY, NON_EXISTENT} # {}
    THEN SetStatus(G, sk, {NON_EXISTENT})
    ELSE LET S1 == IF DIRTY \in status
                   THEN LET S2 == SetData(G, sk, G.skToCommitted[sk]) IN
                        IF S2.err THEN S2
                        ELSE [S2 EXCEPT !.skToCommitted[sk] = Undef,
                                        !.skToChanged = Del(S2.skToChanged, sk)]
                   ELSE G
         IN UnloadRecord(SetStatus(S1, sk, {DESTROYED}), sk)

\* The rebase loop of sourceDidFetchPartialRecords: the new data and the new
\* changed marks.  A key the update does not have reads as undefined, which
\* the data keeps as a missing key.
RebasedData(oldData, oldChanged, update) ==
    [k \in AllKeys |-> IF ~HasKey(oldData, k) THEN Absent
                       ELSE IF oldChanged[k] # NoMark THEN oldData[k]
                       ELSE update[k]]
RebasedChanged(oldData, oldChanged, update) ==
    [k \in AllKeys |-> IF HasKey(oldData, k) /\ oldChanged[k] # NoMark
                          /\ oldData[k] # update[k]
                       THEN "true" ELSE NoMark]

\* sourceDidFetchPartialRecords(accountId, Type, {id: patch}); newId is the
\* primary key the patch carries, NoId when it carries none.
SourceDidFetchPartialRecords(S, acct, id, patch, newId) ==
    IF S.err THEN S
    ELSE IF acct \notin S.accounts THEN Throw(S)
    ELSE
    LET sk == S.idToSK[acct][id]
        status == IF sk = 0 THEN {} ELSE S.skToStatus[sk]
    IN
    IF READY \notin status THEN S
    ELSE IF COMMITTING \in status
    THEN FetchData(SetStatus(S, sk, status \ {LOADING}), sk)
    ELSE
    LET S1 == IF newId # NoId /\ newId # id
              THEN [S EXCEPT !.skToId[sk] = newId, !.idToSK[acct][newId] = sk]
              ELSE S
    IN
    IF DIRTY \notin status
    THEN SetStatus(UpdateData(S1, sk, patch, FALSE), sk, {READY})
    \* Object.assign(_skToCommitted[storeKey], update)
    ELSE IF ~IsDef(S1.skToCommitted[sk]) THEN Throw(S1)
    ELSE
    LET update == Assign(S1.skToCommitted[sk], patch)
        S2 == [S1 EXCEPT !.skToCommitted[sk] = update]
        oldData == S2.skToData[sk]
        hasChanged == Has(S2.skToChanged, sk)
        oldChanged == IF hasChanged THEN Val(S2.skToChanged, sk) ELSE NoChanged
        newChanged == RebasedChanged(oldData, oldChanged, update)
        discard == SetStatus(
                     UpdateData(
                       [S2 EXCEPT !.skToChanged = Del(S2.skToChanged, sk),
                                  !.skToCommitted[sk] = Undef],
                       sk, update, FALSE),
                     sk, {READY})
    IN
    IF ~S2.rebaseConflicts THEN discard
    \* "key in oldChanged" with no changed object
    ELSE IF ~hasChanged /\ ObjKeys(oldData) # {} THEN Throw(S2)
    ELSE IF ChangedKeys(newChanged) = {} THEN discard
    ELSE [S2 EXCEPT !.skToChanged = Put(S2.skToChanged, sk, newChanged),
                    !.skToData[sk] = RebasedData(oldData, oldChanged, update),
                    !.skToStatus[sk] = {READY, DIRTY}]

\* A record object as the source delivers it: its id and its attributes.
NoRecord == [id |-> NoId, data |-> Undef]

\* The isAll sweep of sourceDidFetchRecords: is this store key of the type
\* one the response should have held?
MissingFromAll(S, sk, acct, seen) ==
    /\ S.skToType[sk] # ""
    /\ sk # seen
    /\ READY \in GetStatus(S, sk)
    /\ NEWBIT \notin GetStatus(S, sk)
    /\ S.skToData[sk]["accountId"] = acct

\* sourceDidDestroyRecords(accountId, Type, destroyed) for the ids the sweep
\* collected in S0; the callback walks its list from the end.
RECURSIVE DestroyMissing(_, _, _, _, _)
DestroyMissing(S, S0, sk, acct, seen) ==
    IF sk = 0 THEN S
    ELSE DestroyMissing(
           IF MissingFromAll(S0, sk, acct, seen)
           THEN SourceDidDestroyRecords(S, acct, S0.skToId[sk]) ELSE S,
           S0, sk - 1, acct, seen)

\* The state token handling at the end of sourceDidFetchRecords.
FetchedState(S, acct, state, isAll) ==
    IF S.err \/ state = NoState THEN S
    ELSE
    LET oldClient == S.clientState[acct]
        oldServer == S.serverState[acct]
    IN
    IF ~isAll /\ oldClient # NoState /\ oldClient # state
    THEN SourceStateDidChange(S, acct, state)
    ELSE [S EXCEPT !.clientState[acct] = state,
                   !.serverState[acct] =
                       IF oldClient = NoState \/ oldServer = NoState
                          \/ oldClient = oldServer
                       THEN state ELSE @]

\* sourceDidFetchRecords(accountId, Type, records, state, isAll) for a list
\* of no record (rec = NoRecord) or one.
SourceDidFetchRecords(S, acct, rec, state, isAll) ==
    IF acct \notin S.accounts THEN Throw(S)
    ELSE
    LET G == IF rec = NoRecord THEN S ELSE GetStoreKey(S, acct, rec.id)
        sk == IF rec = NoRecord THEN 0 ELSE G.key
        status == GetStatus(G, sk)
        data == [rec.data EXCEPT !["accountId"] = acct]
        isUpdate == rec # NoRecord /\ ~G.err /\ READY \in status
        S1 == IF rec = NoRecord \/ G.err \/ isUpdate THEN G
              ELSE IF DESTROYED \in status
                      /\ status \cap {DIRTY, COMMITTING} # {}
              THEN [G EXCEPT !.skToData[sk] = data,
                             !.skToStatus[sk] = status \ {LOADING}]
              ELSE [G EXCEPT !.skToData[sk] = data,
                             !.skToStatus[sk] = {READY},
                             !.skToLastAccess[sk] = TRUE]
        S2 == IF isAll /\ ~S1.err
              THEN DestroyMissing(S1, S1, MaxKeys, acct, sk) ELSE S1
        S3 == IF isUpdate
              THEN SourceDidFetchPartialRecords(S2, acct, rec.id, data, NoId)
              ELSE S2
        S4 == FetchedState(S3, acct, state, isAll)
    IN IF S4.err THEN S4
       ELSE [S4 EXCEPT !.typeStatus[acct] = @ \cup {READY}]

\* sourceDidFetchUpdates(accountId, Type, changed, destroyed, oldState,
\* newState) with lists of at most one id (NoId for an empty list).
SourceDidFetchUpdates(S, acct, changedId, destroyedId, oldState, newState) ==
    IF acct \notin S.accounts THEN Throw(S)
    ELSE IF oldState = S.clientState[acct]
    THEN LET S1 == IF changedId # NoId
                   THEN SourceDidModifyRecords(S, acct, changedId) ELSE S
             S2 == IF destroyedId # NoId /\ ~S1.err
                   THEN SourceDidDestroyRecords(S1, acct, destroyedId) ELSE S1
         IN IF S2.err THEN S2
            ELSE [S2 EXCEPT !.clientState[acct] = newState,
                            !.serverState[acct] =
                                IF @ = oldState THEN newState ELSE @]
    ELSE SourceStateDidChange(S, acct, newState)

\* sourceCommitDidChangeState(accountId, Type, oldState, newState)
SourceCommitDidChangeState(S, acct, oldState, newState) ==
    IF acct \notin S.accounts THEN Throw(S)
    ELSE IF S.clientState[acct] = oldState
    THEN [S EXCEPT !.clientState[acct] = newState,
                   !.serverState[acct] = IF @ = oldState THEN newState ELSE @]
    ELSE SourceStateDidChange(S, acct, newState)

\* addAccount(accountId, {replaceAccountId}); replaceAccountId is "" when
\* the data has none.  The account object of replaceAccountId is re-filed
\* under accountId, with its tables; a fetchAllRecords callback keeps hold of
\* the status object it was created with (obj), wherever that is filed now.
AddAccount(S, accountId, replaceAccountId) ==
    IF replaceAccountId # "" /\ replaceAccountId \in S.accounts
    THEN LET moved(f, none) ==
                 [a \in Accounts |->
                     IF a = accountId THEN f[replaceAccountId]
                     ELSE IF a = replaceAccountId THEN none ELSE f[a]]
         IN
         [S EXCEPT !.skToAccountId =
                       [sk \in K |-> IF @[sk] = replaceAccountId
                                     THEN accountId ELSE @[sk]],
                   !.accounts = (@ \ {replaceAccountId}) \cup {accountId},
                   !.idToSK = moved(@, [i \in Ids |-> 0]),
                   !.typeStatus = moved(@, {}),
                   !.clientState = moved(@, NoState),
                   !.serverState = moved(@, NoState),
                   !.fetching =
                       {[f EXCEPT !.obj =
                            IF replaceAccountId = accountId THEN @
                            ELSE IF @ = replaceAccountId THEN accountId
                            ELSE IF @ = accountId THEN "" ELSE @] : f \in @}]
    ELSE [S EXCEPT !.accounts = @ \cup {accountId}]

\* The callback fetchAll hands to source.fetchAllRecords.
FetchAllDone(S, f) ==
    CheckServerState(
      IF f.obj = "" THEN S
      ELSE [S EXCEPT !.typeStatus[f.obj] = @ \ {LOADING}],
      f.acct)

\* getRecordFromStoreKey(storeKey, doNotFetch)
GetRecordFromStoreKey(S, sk, doNotFetch) ==
    LET S1 == [S EXCEPT !.skToRecord[sk] = TRUE]
        S2 == IF ~doNotFetch /\ GetStatus(S1, sk) = {EMPTY}
              THEN FetchData(S1, sk) ELSE S1
    IN [S2 EXCEPT !.skToLastAccess[sk] = TRUE]

\* getRecord(accountId, Type, id, doNotFetch)
GetRecord(S, acct, id, doNotFetch) ==
    LET G == GetStoreKey(S, acct, id) IN
    IF G.err THEN G ELSE GetRecordFromStoreKey(G, G.key, doNotFetch)

\* ------------------------------------------------------------------ inputs
\* Objects the application passes as record data or as a patch.
Obj(a, n, acct) == [k \in AllKeys |->
                      IF k = "a" THEN a ELSE IF k = "n" THEN n ELSE acct]
NewData == {EmptyObj, Obj("v1", Absent, Absent)}
Patches == {Obj("v1", Absent, Absent), Obj("v2", Absent, Absent),
            Obj(Absent, "v1", Absent)}
            \cup {Obj(Absent, Absent, acct) : acct \in Accounts}
\* Objects the source delivers.
ServerData == {EmptyObj, Obj("v1", Absent, Absent)}
ServerPatches == {Obj("v1", Absent, Absent), Obj("v2", Absent, Absent)}
Records == {[id |-> id, data |-> d] : id \in Ids, d \in ServerData}

\* The store keys minted so far.
Minted == 1..(nextStoreKey - 1)

\* What updateData, destroyRecord or unloadRecord is about to overwrite, kept
\* by the next state for the properties that compare before and after.
NoPre == [status |-> {}, data |-> Undef, changed |-> NoChanged,
          hasChanged |-> FALSE, created |-> FALSE, observed |-> FALSE,
          clean |-> FALSE]
Pre(sk) == [status |-> skToStatus[sk], data |-> skToData[sk],
            changed |-> IF Has(skToChanged, sk) THEN Val(skToChanged, sk)
                        ELSE NoChanged,
            hasChanged |-> Has(skToChanged, sk),
            created |-> Has(created, sk),
            observed |-> skToRecord[sk] /\ hasObs[sk],
            clean |-> ~HasChanges(Store) /\ ~commitQueued]

\* ------------------------------------------------------- WindowController
\* The windows that open in one behaviour; a window's number stands for its id,
\* a lower number for an id that compares lower.
WinIds == 1..MaxWindows
\* No window has been opened: a window that is not open yet has state
\* "none", one whose controller was destroyed has state "closed".
NoWindows == [w \in WinIds |->
                [state |-> "none", isMaster |-> FALSE, seenWCs |-> {},
                 events |-> <<>>, checkQueued |-> FALSE]]
\* Nothing was written under the broadcastKey.
NoItem == [wcId |-> 0, type |-> ""]
\* The windows and the item of the storage, as one value W.
WCs == [wc |-> wcs, item |-> localStorage]
Opened(W) == {w \in WinIds : W.wc[w].state = "open"}

\* A controller that never takes itself for the master.
NeverMaster(wc, id) == [wc EXCEPT !.isMaster = FALSE]

\* checkMaster() of the window with this id
CheckMaster(wc, id) ==
    [wc EXCEPT !.isMaster = \A seen \in wc.seenWCs : ~(seen < id)]

\* broadcast(type) by window id: localStorage.setItem(broadcastKey, {wcId,
\* type}).  The browser fires a storage event in every other window that
\* listens, unless the item already had this value.
Broadcast(W, id, type) ==
    LET data == [wcId |-> id, type |-> type] IN
    IF W.item = data THEN W
    ELSE [wc |-> [w \in WinIds |->
                    IF w # id /\ W.wc[w].state = "open"
                    THEN [W.wc[w] EXCEPT !.events = Append(@, data)]
                    ELSE W.wc[w]],
          item |-> data]

\* init of the window with this id: the listeners are added, checkMaster is
\* put off to the next event loop, start() broadcasts 'wc:hello'.
WindowInit(W, id) ==
    Broadcast([W EXCEPT !.wc[id] =
                  [state |-> "open", isMaster |-> FALSE, seenWCs |-> {},
                   events |-> <<>>, checkQueued |-> TRUE]],
              id, "wc:hello")

\* destroy(): end() broadcasts 'wc:bye', the listeners are removed: events
\* not yet handled are not handled any more.
WindowDestroy(W, id) ==
    [Broadcast(W, id, "wc:bye") EXCEPT
        !.wc[id].state = "closed", !.wc[id].events = <<>>,
        !.wc[id].checkQueued = FALSE]

\* _ping(event)
Ping(wc, id, event) ==
    IF event.wcId < id
    THEN CheckMaster([wc EXCEPT !.seenWCs = @ \cup {event.wcId}], id)
    ELSE [wc EXCEPT !.seenWCs = @ \cup {event.wcId}]
\* _bye(event)
Bye(wc, id, event) ==
    CheckMaster([wc EXCEPT !.seenWCs = @ \ {event.wcId}], id)
\* _hello(event): _ping(event), then sendPing() broadcasts 'wc:ping'.
Hello(W, id, event) ==
    Broadcast([W EXCEPT !.wc[id] = Ping(@, id, event)], id, "wc:ping")

\* handleEvent(event) for a storage event of the broadcastKey whose new
\* value is data: an event of the window's own is ignored, any other is
\* fired to the handler of its type.
HandleEvent(W, id, data) ==
    IF data.wcId = id THEN W
    ELSE IF data.type = "wc:hello" THEN Hello(W, id, data)
    ELSE IF data.type = "wc:ping"
    THEN [W EXCEPT !.wc[id] = Ping(@, id, data)]
    ELSE [W EXCEPT !.wc[id] = Bye(@, id, data)]

\* The first storage event window id has from window sender, and its
\* events without it: the events of one window reach another in the order
\* in which they were written.
FirstFrom(events, sender) ==
    CHOOSE i \in DOMAIN events :
        /\ events[i].wcId = sender
        /\ \A j \in 1..(i - 1) : events[j].wcId # sender
Without(events, i) ==
    [j \in 1..(Len(events) - 1) |->
        IF j < i THEN events[j] ELSE events[j + 1]]

\* ------------------------------------------------------------- LocalQuery
\* A LocalQuery of the one record type.  where and sort are the functions it
\* was configured with, named: where "none" is no filter and "isV1" accepts the
\* data whose attribute a is 'v1'; sort "none" is no comparator, "a" and "-a"
\* are sortByProperties('a') and sortByProperties('-a'), and "same" is a
\* comparator that returns 0 for every pair.
Wheres == {"none", "isV1"}
Sorts == {"none", "a", "-a", "same"}
\* The queries the application makes.
LocalQueries == {<<"none", "none">>, <<"isV1", "a">>, <<"none", "-a">>,
                 <<"isV1", "same">>}
\* No query has been made.
NoLocalQuery == [made |-> FALSE, where |-> "none", sort |-> "none",
                 status |-> {}, storeKeys |-> <<>>, recomputed |-> FALSE]

\* typeof value, for the values an attribute takes.
TypeOf(v) == IF v \in {Absent, "undefined"} THEN "undefined"
             ELSE IF v = Null THEN "object" ELSE "string"
\* compare(aVal, bVal) of two strings of the model, 'v1' before 'v2'.
CompareStrings(aVal, bVal) ==
    IF aVal = bVal THEN 0 ELSE IF aVal = "v1" THEN -1 ELSE 1
\* The function sortByProperties(prop) returns, applied to a and b; reverse is
\* set when prop starts with '-'.  Values of different types, and equal
\* values, leave the pair a tie.
SortByProperties(reverse, a, b) ==
    LET aVal == IF reverse THEN b["a"] ELSE a["a"]
        bVal == IF reverse THEN a["a"] ELSE b["a"]
    IN IF TypeOf(aVal) = TypeOf(bVal) /\ TypeOf(aVal) = "string"
          /\ aVal # bVal
       THEN CompareStrings(aVal, bVal)
       ELSE 0
\* accept(data, store, storeKey)
Accept(where, data) == where = "isV1" => data["a"] = "v1"
\* compare(aData, bData, store, a, b)
Compare(sort, aData, bData) ==
    IF sort = "a" THEN SortByProperties(FALSE, aData, bData)
    ELSE IF sort = "-a" THEN SortByProperties(TRUE, aData, bData)
    ELSE 0

\* getTypeStatus(Type), without an account: the bits of every account's
\* status of the type, a missing status counting as EMPTY.
GetTypeStatus(S) ==
    UNION {IF S.typeStatus[a] = {} THEN {EMPTY} ELSE S.typeStatus[a] :
           a \in S.accounts}

\* A filter that lets every record through.
AcceptAny(S, accept, sk) == TRUE
\* acceptStoreKey
AcceptStoreKey(S, accept, sk) == Accept(accept, S.skToData[sk])
\* compareStoreKeys: the comparator's answer, or the difference of the store
\* keys' numbers when that is 0.
CompareStoreKeys(S, compare, a, b) ==
    LET aIsFirst == Compare(compare, S.skToData[a], S.skToData[b])
    IN IF aIsFirst # 0 THEN aIsFirst ELSE a - b
\* Array#sort with a comparator: sk goes in front of the first item of the
\* sorted array that is to come after it.
InsertSorted(S, compare, sorted, sk) ==
    LET after == {i \in DOMAIN sorted :
                     CompareStoreKeys(S, compare, sk, sorted[i]) < 0}
        at == IF after = {} THEN Len(sorted) + 1
              ELSE CHOOSE i \in after : \A j \in after : i <= j
    IN SubSeq(sorted, 1, at - 1) \o <<sk>> \o SubSeq(sorted, at, Len(sorted))
RECURSIVE SortStoreKeys(_, _, _, _)
SortStoreKeys(S, compare, results, n) ==
    IF n = 0 THEN <<>>
    ELSE InsertSorted(S, compare, SortStoreKeys(S, compare, results, n - 1),
                      results[n])

\* The keys of _typeToSKToId[Type] in for-in order: the store keys in the
\* order they were minted.
RECURSIVE SKsOfType(_, _)
SKsOfType(S, sk) ==
    IF sk >= S.nextStoreKey THEN <<>>
    ELSE <<sk>> \o SKsOfType(S, sk + 1)

\* findAll(Type, accept, compare)
FindAll(S, accept, compare) ==
    LET ready == SelectSeq(SKsOfType(S, 1),
                           LAMBDA sk : READY \in S.skToStatus[sk])
        results == IF accept # "none"
                   THEN SelectSeq(ready,
                                  LAMBDA sk : AcceptStoreKey(S, accept, sk))
                   ELSE ready
    IN IF compare # "none"
       THEN SortStoreKeys(S, compare, results, Len(results))
       ELSE results

\* Query#sourceWillFetchQuery and Query#sourceDidFetchQuery(storeKeys): the
\* query takes the array as its list and is READY.
SourceDidFetchQuery(Q, results) ==
    [Q EXCEPT !.storeKeys = results, !.status = {READY},
              !.recomputed = TRUE]

\* LocalQuery#fetch(force)
Fetch(S, Q, force) ==
    IF (force \/ Q.status = {EMPTY} \/ OBSOLETE \in Q.status)
       /\ READY \in GetTypeStatus(S)
    THEN SourceDidFetchQuery(Q, FindAll(S, Q.where, Q.sort))
    ELSE [Q EXCEPT !.recomputed = FALSE]

\* new LocalQuery({ store, Type, where, sort }): Query#init makes the query
\* EMPTY and fetches.
NewLocalQuery(S, where, sort) ==
    Fetch(S, [made |-> TRUE, where |-> where, sort |-> sort,
              status |-> {EMPTY}, storeKeys |-> <<>>, recomputed |-> FALSE],
          FALSE)
\* Query#setObsolete, which the store's event of the type calls: the query is
\* OBSOLETE and, refreshing always, fetches.
SetLocalObsolete(S, Q) ==
    Fetch(S, [Q EXCEPT !.status = @ \cup {OBSOLETE}], FALSE)

\* ------------------------------------------------------------------- Init
\* The store as Store#init leaves it: no account, no store key, no record.
\* rebaseConflicts is a property of the class that an instance may override.
InitStore ==
    /\ nextStoreKey = 1
    /\ skToType = [sk \in K |-> ""]
    /\ skToAccountId = [sk \in K |-> ""]
    /\ skToId = [sk \in K |-> NoId]
    /\ idToSK = [a \in Accounts |-> [i \in Ids |-> 0]]
    /\ skToStatus = [sk \in K |-> {}]
    /\ skToData = [sk \in K |-> Undef]
    /\ skToChanged = <<>>
    /\ skToCommitted = [sk \in K |-> Undef]
    /\ skToRollback = [sk \in K |-> Undef]
    /\ skToRecord = [sk \in K |-> FALSE]
    /\ hasObs = [sk \in K |-> FALSE]
    /\ skToLastAccess = [sk \in K |-> FALSE]
    /\ created = <<>>
    /\ destroyed = <<>>
    /\ isCommitting = FALSE
    /\ autoCommit = TRUE
    /\ commitQueued = FALSE
    /\ fetching = {}
    /\ pushed = [a \in Accounts |-> NoState]
    /\ inflight = NoInflight
    /\ openCommits = 0
    /\ sent = NoSent
    /\ last = [op |-> "init", sk |-> 0, key |-> 0, ret |-> FALSE,
               pre |-> NoPre]
    /\ steps = 0
    /\ localQuery = NoLocalQuery
    /\ wcs = NoWindows
    /\ localStorage = NoItem

\* A store and a query just made.
InitRecords ==
    /\ InitStore
    /\ storeKeys = <<>>
    /\ windows = <<>>
    /\ length = 0
    /\ queryState = ""
    /\ queryStatus = {EMPTY}
    /\ preemptiveUpdates = <<>>
    /\ waitingPackets = <<>>
    /\ updatedEvents = 0
    /\ beforePreemptives = NoBefore

InitTables ==
    /\ InitRecords
    /\ accounts = {}
    /\ typeStatus = [a \in Accounts |-> {}]
    /\ clientState = [a \in Accounts |-> NoState]
    /\ serverState = [a \in Accounts |-> NoState]

\* The default: rebaseConflicts: true.
Init == InitTables /\ rebaseConflicts = TRUE
\* A store made with rebaseConflicts: false.
InitDiscard == InitTables /\ rebaseConflicts = FALSE
\* The store after addAccount('A') and a sourceDidFetchRecords('A', T, [],
\* 's1', true): the type is READY and client and server state are 's1'.
InitLoaded ==
    /\ InitRecords
    /\ accounts = {"A"}
    /\ typeStatus = [a \in Accounts |-> IF a = "A" THEN {READY} ELSE {}]
    /\ clientState = [a \in Accounts |-> IF a = "A" THEN "s1" ELSE NoState]
    /\ serverState = [a \in Accounts |-> IF a = "A" THEN "s1" ELSE NoState]
    /\ rebaseConflicts = TRUE

\* The handlers whose call the properties below look back at.
Observed == {"updateData", "updateDataClean", "discardChanges",
             "unloadRecord", "destroyRecord", "moveRecord", "flush",
             "addAccount"}

\* The handler returned (or threw) with the store as R: the next state.  R is
\* computed once, as r.
Becomes(R, op, sk, pre, cost) ==
    /\ steps + cost <= MaxSteps
    /\ \E r \in {R} :
        /\ ~r.over
        /\ nextStoreKey' = r.nextStoreKey
        /\ accounts' = r.accounts
        /\ skToType' = r.skToType
        /\ skToAccountId' = r.skToAccountId
        /\ skToId' = r.skToId
        /\ idToSK' = r.idToSK
        /\ typeStatus' = r.typeStatus
        /\ clientState' = r.clientState
        /\ serverState' = r.serverState
        /\ skToStatus' = r.skToStatus
        /\ skToData' = r.skToData
        /\ skToChanged' = r.skToChanged
        /\ skToCommitted' = r.skToCommitted
        /\ skToRollback' = r.skToRollback
        /\ skToRecord' = r.skToRecord
        /\ hasObs' = r.hasObs
        /\ skToLastAccess' = r.skToLastAccess
        /\ created' = r.created
        /\ destroyed' = r.destroyed
        /\ isCommitting' = r.isCommitting
        /\ autoCommit' = r.autoCommit
        /\ rebaseConflicts' = r.rebaseConflicts
        /\ commitQueued' = r.commitQueued
        /\ fetching' = r.fetching
        /\ pushed' = r.pushed
        /\ inflight' = r.inflight
        /\ openCommits' = r.openCommits
        /\ sent' = r.sent
        /\ last' = IF op \in Observed
                   THEN [op |-> op, sk |-> sk, key |-> r.key, ret |-> r.ret,
                         pre |-> pre]
                   ELSE [op |-> "other", sk |-> 0, key |-> 0, ret |-> FALSE,
                         pre |-> NoPre]
        /\ steps' = steps + cost
        /\ UNCHANGED queryVars
        /\ UNCHANGED sideVars

\* ------------------------------------------------- actions: the application
AddAccountCall ==
    \E a \in Accounts, r \in Accounts \cup {""} :
        Becomes(AddAccount(Store, a, r), "addAccount", 0, NoPre, 1)

GetRecordCall ==
    \E a \in Accounts, id \in Ids, doNotFetch \in BOOLEAN :
        LET R == GetRecord(Store, a, id, doNotFetch) IN
        Becomes(R, "getRecord", R.key, NoPre, 1)

\* The record's observers come and go; the store only asks hasObservers().
ObserveCall ==
    \E sk \in Minted :
        /\ skToRecord[sk]
        /\ Becomes([Store EXCEPT !.hasObs[sk] = ~@], "observe", sk, NoPre, 1)

\* Record#saveToStore of a record that was made without an id.
SaveToStoreCall ==
    \E a \in Accounts, d \in NewData :
        LET G == GetStoreKey(Store, a, NoId)
            R == CreateRecord(G, G.key, d, 0)
        IN Becomes(IF R.err THEN R ELSE [R EXCEPT !.skToRecord[G.key] = TRUE],
                   "saveToStore", G.key, NoPre, 1)

CreateRecordCall ==
    \E sk \in Minted, d \in NewData :
        Becomes(CreateRecord(Store, sk, d, 0), "createRecord", sk, NoPre, 1)

UpdateDataCall ==
    \E sk \in Minted, patch \in Patches, changeIsDirty \in BOOLEAN :
        Becomes(UpdateData(Store, sk, patch, changeIsDirty),
                IF changeIsDirty THEN "updateData" ELSE "updateDataClean",
                sk, Pre(sk), 1)

RevertDataCall ==
    \E sk \in Minted :
        Becomes(RevertData(Store, sk), "revertData", sk, NoPre, 1)

DestroyRecordCall ==
    \E sk \in Minted :
        Becomes(DestroyRecord(Store, sk, 0), "destroyRecord", sk, Pre(sk), 1)

UndestroyRecordCall ==
    \E sk \in Minted, d \in NewData \cup {Undef} :
        Becomes(UndestroyRecord(Store, sk, d, 0), "undestroyRecord", sk, NoPre, 1)

MoveRecordCall ==
    \E sk \in Minted, a \in Accounts :
        LET R == MoveRecord(Store, sk, a, 0) IN
        Becomes(R, "moveRecord", sk, NoPre, 1)

UnloadRecordCall ==
    \E sk \in Minted :
        Becomes(UnloadRecord(Store, sk), "unloadRecord", sk, Pre(sk), 1)

FetchDataCall ==
    \E sk \in Minted :
        Becomes(FetchData(Store, sk), "fetchData", sk, NoPre, 1)

FetchAllCall ==
    \E a \in Accounts, force \in BOOLEAN :
        Becomes(FetchAll(Store, a, force), "fetchAll", 0, NoPre, 1)

\* store.commitChanges(): queued, not run.
CommitChangesCall ==
    Becomes(QueueCommit(Store), "commitChanges", 0, NoPre, 1)

\* The run loop flushes its queue: the body of commitChanges runs.
FlushCommitChanges ==
    /\ commitQueued
    /\ Becomes(CommitChanges([Store EXCEPT !.commitQueued = FALSE]),
               "flush", 0, NoPre, 0)

\* discardChanges(); the snapshot of an updateData that ran just before is
\* carried along.
DiscardChangesCall ==
    Becomes(DiscardChanges(Store), "discardChanges",
            IF last.op = "updateData" THEN last.sk ELSE 0,
            IF last.op = "updateData" /\ last.ret THEN last.pre ELSE NoPre, 1)

\* ------------------------------------------------------ actions: the source
\* The source answers for one store key of the commit it holds.
Answered(kind, sk) == [Store EXCEPT !.inflight[kind] = @ \ {sk}]

SourceDidCommitCreateCall ==
    \E sk \in inflight.create, id \in Ids :
        Becomes(SourceDidCommitCreate(Answered("create", sk), sk, id),
                "sourceDidCommitCreate", sk, NoPre, 0)

SourceDidNotCreateCall ==
    \E sk \in inflight.create, isPermanent \in BOOLEAN, prevented \in BOOLEAN :
        Becomes(SourceDidNotCreate(Answered("create", sk), sk, isPermanent,
                                   prevented),
                "sourceDidNotCreate", sk, NoPre, 0)

SourceDidCommitUpdateCall ==
    \E sk \in inflight.update :
        Becomes(SourceDidCommitUpdate(Answered("update", sk), sk),
                "sourceDidCommitUpdate", sk, NoPre, 0)

SourceDidNotUpdateCall ==
    \E sk \in inflight.update, isPermanent \in BOOLEAN, prevented \in BOOLEAN :
        Becomes(SourceDidNotUpdate(Answered("update", sk), sk, isPermanent,
                                   prevented),
                "sourceDidNotUpdate", sk, NoPre, 0)

SourceDidCommitDestroyCall ==
    \E sk \in inflight.destroy :
        Becomes(SourceDidCommitDestroy(Answered("destroy", sk), sk),
                "sourceDidCommitDestroy", sk, NoPre, 0)

SourceDidNotDestroyCall ==
    \E sk \in inflight.destroy, isPermanent \in BOOLEAN, prevented \in BOOLEAN :
        Becomes(SourceDidNotDestroy(Answered("destroy", sk), sk, isPermanent,
                                    prevented),
                "sourceDidNotDestroy", sk, NoPre, 0)

\* The (account, type) is LOADING or COMMITTING.
Busy(a) == typeStatus[a] \cap {LOADING, COMMITTING} # {}

\* The source tells the store, through sourceStateDidChange, that the state
\* of the type is new.  The source has nothing more to tell when that is
\* the client's state; it remembers the state when the type is busy.
Announced(a, new) ==
    [Store EXCEPT !.pushed[a] = IF new = clientState[a] THEN NoState
                                ELSE IF Busy(a) THEN new ELSE @]

\* The source hands the store the changes that take the client's state to
\* new: a remembered announcement of new is served.
Delivered(a, new) ==
    [Store EXCEPT !.pushed[a] = IF @ = new THEN NoState ELSE @]

SourceCommitDidChangeStateCall ==
    \E i \in DOMAIN inflight.entries, old \in States, new \in States :
        LET a == inflight.entries[i] IN
        Becomes(SourceCommitDidChangeState(
                  IF old # clientState[a] THEN Announced(a, new)
                  ELSE Delivered(a, new),
                  a, old, new),
                "sourceCommitDidChangeState", 0, NoPre, 1)

\* Every store key of the commit is answered: the source calls done.
CommitDoneCall ==
    /\ openCommits > 0
    /\ inflight.create = {} /\ inflight.update = {} /\ inflight.destroy = {}
    /\ Becomes([CommitDone(Store) EXCEPT !.inflight = NoInflight,
                                         !.openCommits = @ - 1],
               "done", 0, NoPre, 0)

\* A response to fetchRecord/refreshRecord/fetchAllRecords that carries no
\* state token.
SourceDidFetchRecordsCall ==
    \E a \in Accounts, rec \in Records \cup {NoRecord}, isAll \in BOOLEAN :
        LET R == SourceDidFetchRecords(Store, a, rec, NoState, isAll) IN
        Becomes(R, "sourceDidFetchRecords", R.key, NoPre, 1)

\* The same response with the state token of the type.
SourceDidFetchRecordsStateCall ==
    \E a \in Accounts, rec \in Records \cup {NoRecord}, state \in States,
       isAll \in BOOLEAN :
        LET R == SourceDidFetchRecords(Store, a, rec, state, isAll) IN
        Becomes(R, "sourceDidFetchRecords", R.key, NoPre, 1)

SourceDidFetchPartialRecordsCall ==
    \E a \in Accounts, id \in Ids, patch \in ServerPatches,
       newId \in Ids \cup {NoId} :
        Becomes(SourceDidFetchPartialRecords(Store, a, id, patch, newId),
                "sourceDidFetchPartialRecords", 0, NoPre, 1)

SourceCouldNotFindRecordsCall ==
    \E a \in Accounts, id \in Ids :
        LET R == SourceCouldNotFindRecords(Store, a, id) IN
        Becomes(R, "sourceCouldNotFindRecords", R.key, NoPre, 1)

SourceDidFetchUpdatesCall ==
    \E a \in Accounts, changedId \in Ids \cup {NoId},
       destroyedId \in Ids \cup {NoId}, old \in States, new \in States :
        Becomes(SourceDidFetchUpdates(
                  IF old # clientState[a] THEN Announced(a, new)
                  ELSE Delivered(a, new),
                  a, changedId, destroyedId, old, new),
                "sourceDidFetchUpdates", 0, NoPre, 1)

SourceDidModifyRecordsCall ==
    \E a \in Accounts, id \in Ids :
        LET R == SourceDidModifyRecords(Store, a, id) IN
        Becomes(R, "sourceDidModifyRecords", R.key, NoPre, 1)

SourceDidDestroyRecordsCall ==
    \E a \in Accounts, id \in Ids :
        LET R == SourceDidDestroyRecords(Store, a, id) IN
        Becomes(R, "sourceDidDestroyRecords", R.key, NoPre, 1)

SourceStateDidChangeCall ==
    \E a \in Accounts, new \in States :
        Becomes(SourceStateDidChange(Announced(a, new), a, new),
                "sourceStateDidChange", 0, NoPre, 1)

FetchAllDoneCall ==
    \E f \in fetching :
        Becomes(FetchAllDone([Store EXCEPT !.fetching = @ \ {f}], f),
                "fetchAllDone", 0, NoPre, 0)

\* ------------------------------------------------------------ specification
\* The records and the commit pipeline.
Next ==
    \/ AddAccountCall
    \/ GetRecordCall
    \/ ObserveCall
    \/ SaveToStoreCall
    \/ CreateRecordCall
    \/ UpdateDataCall
    \/ RevertDataCall
    \/ DestroyRecordCall
    \/ UndestroyRecordCall
    \/ MoveRecordCall
    \/ UnloadRecordCall
    \/ FetchDataCall
    \/ CommitChangesCall
    \/ FlushCommitChanges
    \/ DiscardChangesCall
    \/ SourceDidCommitCreateCall
    \/ SourceDidNotCreateCall
    \/ SourceDidCommitUpdateCall
    \/ SourceDidNotUpdateCall
    \/ SourceDidCommitDestroyCall
    \/ SourceDidNotDestroyCall
    \/ CommitDoneCall
    \/ SourceDidFetchRecordsCall
    \/ SourceDidFetchPartialRecordsCall
    \/ SourceCouldNotFindRecordsCall
    \/ SourceDidModifyRecordsCall
    \/ SourceDidDestroyRecordsCall

Spec == Init /\ [][Next]_vars

\* The same store with rebaseConflicts off.
SpecDiscard == InitDiscard /\ [][Next]_vars

\* The same with the state tokens of the type: the calls that carry one, and
\* fetchAll, which they set off.
NextState ==
    \/ Next
    \/ FetchAllCall
    \/ FetchAllDoneCall
    \/ SourceDidFetchRecordsStateCall
    \/ SourceDidFetchUpdatesCall
    \/ SourceCommitDidChangeStateCall
    \/ SourceStateDidChangeCall

SpecState == Init /\ [][NextState]_vars

\* A loaded type under state announcements: the application saves new records
\* and fetches, the source answers commits and fetches and announces states.
NextPush ==
    \/ SaveToStoreCall
    \/ FetchAllCall
    \/ FlushCommitChanges
    \/ SourceDidCommitCreateCall
    \/ SourceDidNotCreateCall
    \/ SourceCommitDidChangeStateCall
    \/ CommitDoneCall
    \/ SourceDidFetchUpdatesCall
    \/ SourceStateDidChangeCall
    \/ FetchAllDoneCall

SpecPush == InitLoaded /\ [][NextPush]_vars

\* The commit pipeline under a run loop that flushes its queue and a source
\* that answers: every store key of a commit it was handed gets one of its
\* two answers, and then the done callback is called.  The application loads,
\* edits and destroys records; the source may report records destroyed.
NextLive ==
    \/ AddAccountCall
    \/ SourceDidFetchRecordsCall
    \/ CreateRecordCall
    \/ UpdateDataCall
    \/ DestroyRecordCall
    \/ SourceDidDestroyRecordsCall
    \/ FlushCommitChanges
    \/ SourceDidCommitCreateCall
    \/ SourceDidNotCreateCall
    \/ SourceDidCommitUpdateCall
    \/ SourceDidNotUpdateCall
    \/ SourceDidCommitDestroyCall
    \/ SourceDidNotDestroyCall
    \/ CommitDoneCall

SpecLive ==
    /\ Init /\ [][NextLive]_vars
    /\ WF_vars(FlushCommitChanges)
    /\ WF_vars(SourceDidCommitCreateCall \/ SourceDidNotCreateCall)
    /\ WF_vars(SourceDidCommitUpdateCall \/ SourceDidNotUpdateCall)
    /\ WF_vars(SourceDidCommitDestroyCall \/ SourceDidNotDestroyCall)
    /\ WF_vars(CommitDoneCall)

\* ---------------------------------------------------------- WindowedQuery
\* The query's list is a JavaScript array of store keys that may have holes;
\* it is kept as a sequence with 0 for a hole, index i of the array at i + 1.
\* Only the WINDOW_READY and WINDOW_RECORDS_READY bits of a window are kept.
WINDOW_READY == "WINDOW_READY"
WINDOW_RECORDS_READY == "WINDOW_RECORDS_READY"
QKeys == 1..MaxQKeys
Min(a, b) == IF a < b THEN a ELSE b
Holes(n) == [i \in 1..n |-> 0]
\* list[i]
At(list, i) == IF i + 1 \in DOMAIN list THEN list[i + 1] ELSE 0
\* list.length = n
SetLength(list, n) ==
    IF n <= Len(list) THEN SubSeq(list, 1, n)
    ELSE list \o Holes(n - Len(list))
\* list.splice(i, 1)
SpliceOut(list, i) ==
    IF i < Len(list)
    THEN SubSeq(list, 1, i) \o SubSeq(list, i + 2, Len(list)) ELSE list
\* list.splice(i, 0, sk): a start past the end is the end.
SpliceIn(list, i, sk) ==
    LET j == Min(i, Len(list)) IN
    SubSeq(list, 1, j) \o <<sk>> \o SubSeq(list, j + 1, Len(list))
\* list[i] = sk
SetAt(list, i, sk) ==
    IF i < Len(list) THEN [list EXCEPT ![i + 1] = sk]
    ELSE list \o Holes(i - Len(list)) \o <<sk>>
\* list.indexOf(sk), list.lastIndexOf(sk): -1 when sk is not in the list.
IndexOf(list, sk) ==
    IF \E i \in DOMAIN list : list[i] = sk
    THEN (CHOOSE i \in DOMAIN list :
              list[i] = sk /\ \A j \in 1..(i - 1) : list[j] # sk) - 1
    ELSE -1
LastIndexOf(list, sk) ==
    IF \E i \in DOMAIN list : list[i] = sk
    THEN (CHOOSE i \in DOMAIN list :
              list[i] = sk /\ \A j \in (i + 1)..Len(list) : list[j] # sk) - 1
    ELSE -1

\* The query as one value.
Query == [storeKeys |-> storeKeys, windows |-> windows, length |-> length]

\* reset(): the windows are dropped here; the list is emptied and length
\* set to null by O.Query#reset.
QueryReset(Q) == [Q EXCEPT !.storeKeys = <<>>, !.windows = <<>>, !.length = 0]

\* Math.floor((n - 1) / windowSize), for n >= 0
LastWindow(n) == IF n = 0 THEN -1 ELSE (n - 1) \div WindowSize

\* recalculateFetchedWindows(start, length): the windows array is cut or
\* stretched to the windows of length; each window from that of start on
\* loses WINDOW_RECORDS_READY and is WINDOW_READY when the list has a store
\* key at each of its indexes below length.
RecalculateFetchedWindows(Q, start, len) ==
    LET n == LastWindow(len) + 1
        old(w) == IF w + 1 \in DOMAIN Q.windows THEN Q.windows[w + 1] ELSE {}
        full(w) == \A i \in (w * WindowSize)
                              ..Min(w * WindowSize + WindowSize - 1, len - 1) :
                       At(Q.storeKeys, i) # 0
    IN [Q EXCEPT !.windows =
           [k \in 1..n |->
               LET w == k - 1 IN
               IF w >= start \div WindowSize
               THEN IF full(w)
                    THEN (old(w) \ {WINDOW_RECORDS_READY}) \cup {WINDOW_READY}
                    ELSE old(w) \ {WINDOW_RECORDS_READY, WINDOW_READY}
               ELSE old(w)]]

\* mapIndexes(list, storeKeys): list.indexOf for fewer store keys than
\* ~~Math.log(list.length) + 1, else a map from store key to index that keeps
\* the last index of a store key.
FloorLog(n) == IF n < 3 THEN 0 ELSE IF n < 8 THEN 1 ELSE 2
MapIndexes(list, sks) ==
    [i \in DOMAIN sks |->
        IF Len(sks) < FloorLog(Len(list)) + 1
        THEN IndexOf(list, sks[i]) ELSE LastIndexOf(list, sks[i])]

\* sortLinkedArrays(a1, a2) for arrays of at most two items.
SortLinked(a1, a2) ==
    IF Len(a1) = 2 /\ a1[2] < a1[1]
    THEN [a1 |-> <<a1[2], a1[1]>>, a2 |-> <<a2[2], a2[1]>>]
    ELSE [a1 |-> a1, a2 |-> a2]

\* The loop of _normaliseUpdate over update.added.
RECURSIVE NormaliseAdded(_, _, _)
NormaliseAdded(N, added, i) ==
    IF i > Len(added) THEN N
    ELSE
    LET j == IndexOf(N.removedStoreKeys, added[i].storeKey) IN
    NormaliseAdded(
      IF j > -1
         /\ N.removedIndexes[j + 1] - j + Len(N.addedIndexes) = added[i].index
      THEN [N EXCEPT !.removedIndexes = SpliceOut(@, j),
                     !.removedStoreKeys = SpliceOut(@, j)]
      ELSE [N EXCEPT !.addedIndexes = Append(@, added[i].index),
                     !.addedStoreKeys = Append(@, added[i].storeKey)],
      added, i + 1)

\* An update without a total.
NoTotal == -1
\* _normaliseUpdate(update)
NormaliseUpdate(Q, update) ==
    LET sorted == SortLinked(MapIndexes(Q.storeKeys, update.removed),
                             update.removed)
        unknown == Cardinality({i \in DOMAIN sorted.a1 : sorted.a1[i] = -1})
        N == NormaliseAdded(
               [removedIndexes |-> SubSeq(sorted.a1, unknown + 1,
                                          Len(sorted.a1)),
                removedStoreKeys |-> SubSeq(sorted.a2, unknown + 1,
                                            Len(sorted.a2)),
                addedIndexes |-> <<>>, addedStoreKeys |-> <<>>],
               update.added, 1)
    IN [removedIndexes |-> N.removedIndexes,
        removedStoreKeys |-> N.removedStoreKeys,
        addedIndexes |-> N.addedIndexes,
        addedStoreKeys |-> N.addedStoreKeys,
        truncateAtFirstGap |-> unknown > 0,
        total |-> IF update.total # NoTotal THEN update.total
                  ELSE Q.length - Len(N.removedIndexes) + Len(N.addedIndexes),
        upToId |-> update.upToId]

\* The steps of _applyUpdate work on the list, the local listLength, the
\* first changed index and the flag recalculateFetchedWindows.
\* --- Check upToId --- (a found upToId)
CheckUpToId(L, upToId) ==
    LET index == LastIndexOf(L.list, upToId) + 1 IN
    IF upToId # 0 /\ index # L.listLength
    THEN [list |-> SetLength(L.list, index), listLength |-> index,
          firstChange |-> Min(index, L.firstChange), recalc |-> TRUE]
    ELSE L
\* --- Remove items from list ---: from the last index to the first.
RECURSIVE RemoveItems(_, _, _)
RemoveItems(L, removedIndexes, i) ==
    IF i < 1 THEN L
    ELSE RemoveItems(
           [L EXCEPT !.list = SpliceOut(@, removedIndexes[i]),
                     !.firstChange = Min(@, removedIndexes[i])],
           removedIndexes, i - 1)
\* The truncation at the first gap.
RECURSIVE FirstGap(_, _)
FirstGap(list, i) == IF At(list, i) # 0 THEN FirstGap(list, i + 1) ELSE i
TruncateAtFirstGap(L) ==
    LET i == FirstGap(L.list, 0) IN
    [L EXCEPT !.list = SetLength(@, i), !.listLength = i,
              !.firstChange = Min(@, i)]
\* --- Add items to list ---
RECURSIVE AddItems(_, _, _, _)
AddItems(L, addedIndexes, addedStoreKeys, i) ==
    IF i > Len(addedIndexes) THEN L
    ELSE
    LET index == addedIndexes[i] IN
    AddItems(
      [L EXCEPT !.list = IF index >= L.listLength
                         THEN SetAt(@, index, addedStoreKeys[i])
                         ELSE SpliceIn(@, index, addedStoreKeys[i]),
                !.listLength = IF index >= @ THEN index + 1 ELSE @ + 1,
                !.firstChange = Min(@, index)],
      addedIndexes, addedStoreKeys, i + 1)

\* _applyUpdate(args), with no packet waiting.
ApplyUpdate(Q, args) ==
    IF args.upToId # 0 /\ LastIndexOf(Q.storeKeys, args.upToId) = -1
    THEN QueryReset(Q)
    ELSE
    LET L0 == [list |-> Q.storeKeys, listLength |-> Len(Q.storeKeys),
               firstChange |-> Q.length,
               recalc |-> Len(args.addedStoreKeys) > 0
                          \/ Len(args.removedStoreKeys) > 0]
        L1 == CheckUpToId(L0, args.upToId)
        L2 == RemoveItems(L1, args.removedIndexes, Len(args.removedStoreKeys))
        L3 == IF args.truncateAtFirstGap THEN TruncateAtFirstGap(L2) ELSE L2
        L4 == AddItems(L3, args.addedIndexes, args.addedStoreKeys, 1)
        Q1 == [Q EXCEPT !.storeKeys = L4.list]
        Q2 == IF L4.recalc
              THEN RecalculateFetchedWindows(Q1, L4.firstChange, args.total)
              ELSE Q1
    IN [Q2 EXCEPT !.length = args.total]

\* The updates a source delivers: up to two store keys removed, at most one
\* added, which is not in the list unless it is also removed, a total or
\* none, an upToId or none (0).
Removals ==
    {<<>>} \cup {<<a>> : a \in QKeys}
           \cup {p \in QKeys \X QKeys : p[1] # p[2]}
Additions ==
    {<<>>} \cup {<<[index |-> i, storeKey |-> sk]>> :
                     i \in 0..MaxIndex, sk \in QKeys}
Updates ==
    [removed : Removals, added : Additions,
     total : {NoTotal} \cup 0..MaxTotal, upToId : {0} \cup QKeys]

\* The query is handed an update: it normalises it and applies it.
ApplyUpdateCall ==
    \E update \in Updates :
        LET Q == ApplyUpdate(Query, NormaliseUpdate(Query, update)) IN
        /\ \A i \in DOMAIN update.added :
               \/ \A j \in DOMAIN storeKeys :
                      storeKeys[j] # update.added[i].storeKey
               \/ \E j \in DOMAIN update.removed :
                      update.removed[j] = update.added[i].storeKey
        /\ Len(Q.storeKeys) <= MaxList
        /\ Q.length \in 0..MaxTotal
        /\ storeKeys' = Q.storeKeys
        /\ windows' = Q.windows
        /\ length' = Q.length
        /\ UNCHANGED <<queryState, queryStatus, preemptiveUpdates,
                       waitingPackets, updatedEvents, beforePreemptives>>
        /\ UNCHANGED storeVars
        /\ UNCHANGED sideVars

NextQuery == ApplyUpdateCall

SpecQuery == Init /\ [][NextQuery]_vars

\* ------------------------------------------ WindowedQuery and its source
\* Array#binarySearch: the index of the first item of a sorted array that is
\* not below value (lower = 0, upper = length at the call).
RECURSIVE BinarySearch(_, _, _, _)
BinarySearch(arr, value, lower, upper) ==
    IF lower >= upper THEN lower
    ELSE LET middle == (lower + upper) \div 2 IN
         IF arr[middle + 1] < value
         THEN BinarySearch(arr, value, middle + 1, upper)
         ELSE BinarySearch(arr, value, lower, middle)

\* mergeSortedLinkedArrays(a1, a2, b1, b2), from the heads i and j on.
RECURSIVE MergeSortedLinkedArrays(_, _, _, _, _, _)
MergeSortedLinkedArrays(a1, a2, b1, b2, i, j) ==
    IF ~(i < Len(a1) \/ j < Len(a2)) THEN [a |-> <<>>, b |-> <<>>]
    ELSE IF j >= Len(a2) \/ (i < Len(a1) /\ a1[i + 1] < a2[j + 1])
    THEN LET r == MergeSortedLinkedArrays(a1, a2, b1, b2, i + 1, j) IN
         [a |-> <<a1[i + 1]>> \o r.a, b |-> <<b1[i + 1]>> \o r.b]
    ELSE LET r == MergeSortedLinkedArrays(a1, a2, b1, b2, i, j + 1) IN
         [a |-> <<a2[j + 1]>> \o r.a, b |-> <<b2[j + 1]>> \o r.b]

\* The inner loop of adjustIndexes: index moves up past each index removed
\* before that is not above it.
RECURSIVE PastRemovedBefore(_, _, _)
PastRemovedBefore(index, removedBefore, j) ==
    IF j < Len(removedBefore) /\ index >= removedBefore[j + 1]
    THEN PastRemovedBefore(index + 1, removedBefore, j + 1)
    ELSE index

\* The outer loop of adjustIndexes, from item i on.
RECURSIVE AdjustLoop(_, _, _, _, _)
AdjustLoop(removed, added, removedBefore, sks, i) ==
    IF i > Len(removed) THEN [a |-> <<>>, b |-> <<>>]
    ELSE
    LET index == removed[i]
        position == BinarySearch(added, index, 0, Len(added))
        r == AdjustLoop(removed, added, removedBefore, sks, i + 1)
    IN IF position < Len(added) /\ added[position + 1] = index THEN r
       ELSE [a |-> <<PastRemovedBefore(index - position, removedBefore, 0)>>
                      \o r.a,
             b |-> <<sks[i]>> \o r.b]

\* adjustIndexes(removed, added, removedBefore, storeKeys,
\*               removedBeforeStoreKeys)
AdjustIndexes(removed, added, removedBefore, sks, removedBeforeSks) ==
    LET r == AdjustLoop(removed, added, removedBefore, sks, 1) IN
    MergeSortedLinkedArrays(removedBefore, r.a, removedBeforeSks, r.b, 0, 0)

\* The second update alone.
LatterUpdate(u1, u2) == u2

\* composeUpdates(u1, u2)
ComposeUpdates(u1, u2) ==
    LET removed == AdjustIndexes(u2.removedIndexes, u1.addedIndexes,
                                 u1.removedIndexes, u2.removedStoreKeys,
                                 u1.removedStoreKeys)
        added == AdjustIndexes(u1.addedIndexes, u2.removedIndexes,
                               u2.addedIndexes, u1.addedStoreKeys,
                               u2.addedStoreKeys)
    IN [removedIndexes |-> removed.a, removedStoreKeys |-> removed.b,
        addedIndexes |-> added.a, addedStoreKeys |-> added.b,
        truncateAtFirstGap |-> u1.truncateAtFirstGap \/ u2.truncateAtFirstGap,
        total |-> u2.total, upToId |-> u2.upToId]

\* An update returned as it is.
NotInverted(u) == u

\* invertUpdate(u)
InvertUpdate(u) ==
    [u EXCEPT !.removedIndexes = u.addedIndexes,
              !.addedIndexes = u.removedIndexes,
              !.removedStoreKeys = u.addedStoreKeys,
              !.addedStoreKeys = u.removedStoreKeys,
              !.total = u.total + Len(u.removedStoreKeys)
                                - Len(u.addedStoreKeys)]

\* updateIsEqual(u1, u2)
UpdateIsEqual(u1, u2) ==
    /\ u1.total = u2.total
    /\ u1.addedIndexes = u2.addedIndexes
    /\ u1.addedStoreKeys = u2.addedStoreKeys
    /\ u1.removedIndexes = u2.removedIndexes
    /\ u1.removedStoreKeys = u2.removedStoreKeys

\* preemptives.reduce(composeUpdates) of a non-empty array, and the array
\* composed of sourceDidFetchUpdate: composed[i] is the composition of the
\* preemptives 0..i.
RECURSIVE Composed(_, _)
Composed(preemptives, n) ==
    IF n = 1 THEN preemptives[1]
    ELSE ComposeUpdates(Composed(preemptives, n - 1), preemptives[n])

\* The ids of the source's records; _toStoreKey maps the id at place k to
\* store key k.
SourceIds ==
    SubSeq(<<"id1", "id2", "id3", "id4", "id5", "id6">>, 1, MaxSourceKeys)
ToStoreKey(id) == CHOOSE k \in DOMAIN SourceIds : SourceIds[k] = id

\* The query with the properties its source callbacks read and write; fired
\* counts the query:updated events of the call being made.
WQuery == [storeKeys |-> storeKeys, windows |-> windows, length |-> length,
           queryState |-> queryState, status |-> queryStatus,
           preemptives |-> preemptiveUpdates,
           waitingPackets |-> waitingPackets, fired |-> 0]

\* O.Query#setObsolete
SetObsolete(Q) == [Q EXCEPT !.status = @ \cup {OBSOLETE}]

\* WindowedQuery#reset: the windows, the waiting packets and the preemptive
\* updates are dropped, then O.Query#reset empties the list.
ResetAll(Q) ==
    [QueryReset(Q) EXCEPT !.waitingPackets = <<>>, !.preemptives = <<>>]

\* sourceDidFetchIds: the packet P (storeKeys, position, length) loses what
\* the preemptive updates removed, from the last removed index to the first.
RECURSIVE PacketLessRemoved(_, _, _)
PacketLessRemoved(P, removedIndexes, i) ==
    IF i < 1 THEN P
    ELSE
    LET index == removedIndexes[i] - P.position IN
    PacketLessRemoved(
      IF index < P.length
      THEN IF index >= 0
           THEN [P EXCEPT !.storeKeys = SpliceOut(@, index), !.length = @ - 1]
           ELSE [P EXCEPT !.position = @ - 1]
      ELSE P,
      removedIndexes, i - 1)

\* ... and gains what they added, up to the first index past the packet.
RECURSIVE PacketPlusAdded(_, _, _, _)
PacketPlusAdded(P, addedIndexes, addedStoreKeys, i) ==
    IF i > Len(addedIndexes) THEN P
    ELSE
    LET index == addedIndexes[i] - P.position IN
    IF index <= 0
    THEN PacketPlusAdded([P EXCEPT !.position = @ + 1],
                         addedIndexes, addedStoreKeys, i + 1)
    ELSE IF index < P.length
    THEN PacketPlusAdded(
           [P EXCEPT !.storeKeys = SpliceIn(@, index, addedStoreKeys[i]),
                     !.length = @ + 1],
           addedIndexes, addedStoreKeys, i + 1)
    ELSE P

\* list[position + i] = storeKeys[i] for each i; an assignment at a negative
\* index adds no element to the array.
RECURSIVE InsertStoreKeys(_, _, _, _)
InsertStoreKeys(list, position, sks, i) ==
    IF i > Len(sks) THEN list
    ELSE InsertStoreKeys(
           IF position + i - 1 < 0 THEN list
           ELSE SetAt(list, position + i - 1, sks[i]),
           position, sks, i + 1)

\* windows[w] |= WINDOW_READY
OrWindowReady(ws, w) ==
    IF w < Len(ws) THEN [ws EXCEPT ![w + 1] = @ \cup {WINDOW_READY}]
    ELSE ws \o [i \in 1..(w - Len(ws)) |-> {}] \o <<{WINDOW_READY}>>

\* while ((length -= windowSize) >= 0) { windows[windowIndex] |= WINDOW_READY;
\* windowIndex += 1 }
RECURSIVE CompleteWindows(_)
CompleteWindows(W) ==
    IF W.length - WindowSize >= 0
    THEN CompleteWindows(
           [windows |-> OrWindowReady(W.windows, W.windowIndex),
            windowIndex |-> W.windowIndex + 1,
            length |-> W.length - WindowSize])
    ELSE [W EXCEPT !.length = @ - WindowSize]

\* sourceDidFetchIds, "Adjust for preemptive updates": the packet of args
\* with store keys for ids, and with the total and the changes of the
\* composition all of the preemptive updates when there are any.
PacketOf(args) ==
    [storeKeys |-> [i \in DOMAIN args.ids |-> ToStoreKey(args.ids[i])],
     position |-> args.position, length |-> Len(args.ids),
     total |-> args.total]
\* The packet as the source sent it, whatever preemptive updates there are.
UnadjustedPacket(Q, args) == PacketOf(args)
AdjustedFor(all, P) ==
    [PacketPlusAdded(
       PacketLessRemoved(P, all.removedIndexes, Len(all.removedIndexes)),
       all.addedIndexes, all.addedStoreKeys, 1)
     EXCEPT !.total = all.total]
AdjustedPacket(Q, args) ==
    IF Len(Q.preemptives) > 0
    THEN AdjustedFor(Composed(Q.preemptives, Len(Q.preemptives)),
                     PacketOf(args))
    ELSE PacketOf(args)

\* sourceDidFetchIds, "Have we fetched any windows?": the first window the
\* packet may complete and the length counted from its start; list is the
\* list with the packet in it.
FirstWindow(list, ws, position, len) ==
    IF position % WindowSize = 0
    THEN [windows |-> ws, windowIndex |-> position \div WindowSize,
          length |-> len]
    ELSE IF \A i \in (position - (position % WindowSize))..(position - 1) :
                At(list, i) # 0
    THEN [windows |-> ws, windowIndex |-> position \div WindowSize,
          length |-> len + (position % WindowSize)]
    ELSE [windows |-> ws, windowIndex |-> (position \div WindowSize) + 1,
          length |-> len - (WindowSize - (position % WindowSize))]

\* ... and the last window, which need not be full: W is what the loop
\* over the full windows left.
FinalWindow(W, end, total) ==
    IF W.length + WindowSize # 0 /\ end = total
       /\ W.length + WindowSize = total % WindowSize
    THEN OrWindowReady(W.windows, W.windowIndex)
    ELSE W.windows

\* sourceDidFetchIds from "Insert into list" on, with the adjusted packet P.
InsertPacket(Q, args, P) ==
    [Q EXCEPT
       !.queryState = args.queryState,
       !.storeKeys = InsertStoreKeys(@, P.position, P.storeKeys, 1),
       !.windows =
           FinalWindow(
             CompleteWindows(
               FirstWindow(
                 InsertStoreKeys(Q.storeKeys, P.position, P.storeKeys, 1),
                 @, P.position, P.length)),
             P.position + P.length, P.total),
       !.length = P.total,
       !.status = {READY} \cup (@ \cap {DIRTY, LOADING, OBSOLETE})]

\* sourceDidFetchIds(args) of a query with canGetDeltaUpdates (the default).
\* The fetch asked of the source on a stale packet changes nothing until the
\* source answers.
SourceDidFetchIds(Q, args) ==
    IF Q.queryState # "" /\ Q.queryState # args.queryState
    THEN SetObsolete([Q EXCEPT !.waitingPackets = Append(@, args)])
    ELSE InsertPacket(Q, args, AdjustedPacket(Q, args))

\* Waiting packets left where they are.
KeepWaitingPackets(Q) == Q

\* _applyWaitingPackets: each packet is taken from the front; one of the
\* query's queryState is handed to sourceDidFetchIds, any other is dropped
\* (and the observed windows are then asked of the source again).
RECURSIVE ApplyWaitingPackets(_)
ApplyWaitingPackets(Q) ==
    IF Q.waitingPackets = <<>> THEN Q
    ELSE
    LET packet == Head(Q.waitingPackets)
        Q1 == [Q EXCEPT !.waitingPackets = Tail(@)]
    IN ApplyWaitingPackets(
         IF packet.queryState # Q.queryState THEN Q1
         ELSE SourceDidFetchIds(Q1, packet))

\* _applyUpdate(args), whole: the list, the windows and length change, the
\* query:updated event is fired and the waiting packets are processed.
ApplyUpdateAll(Q, args) ==
    IF args.upToId # 0 /\ LastIndexOf(Q.storeKeys, args.upToId) = -1
    THEN ResetAll(Q)
    ELSE ApplyWaitingPackets([ApplyUpdate(Q, args) EXCEPT !.fired = @ + 1])

\* clientDidGenerateUpdate(update)
ClientDidGenerateUpdate(Q, update) ==
    LET u == [NormaliseUpdate(Q, update) EXCEPT !.truncateAtFirstGap = FALSE]
        Q1 == ApplyUpdateAll(Q, u)
    IN SetObsolete([Q1 EXCEPT !.preemptives = Append(@, u),
                              !.status = @ \cup {DIRTY}])

\* The store keys of update.removed, each once (seenStorekey).
RECURSIVE Deduplicate(_, _)
Deduplicate(sks, i) ==
    IF i > Len(sks) THEN <<>>
    ELSE IF \E j \in 1..(i - 1) : sks[j] = sks[i]
    THEN Deduplicate(sks, i + 1)
    ELSE <<sks[i]>> \o Deduplicate(sks, i + 1)

\* "Now remove any idempotent operations": from the last added item to the
\* first, an item added where its removal leaves it is taken out of both.
RECURSIVE DropIdempotent(_, _)
DropIdempotent(N, i) ==
    IF i < 0 \/ i >= Len(N.addedIndexes) THEN N
    ELSE
    LET j == IndexOf(N.removedStoreKeys, N.addedStoreKeys[i + 1]) IN
    DropIdempotent(
      IF j > -1 /\ N.removedIndexes[j + 1] - j + i = N.addedIndexes[i + 1]
      THEN [N EXCEPT !.removedIndexes = SpliceOut(@, j),
                     !.removedStoreKeys = SpliceOut(@, j),
                     !.addedIndexes = SpliceOut(@, i),
                     !.addedStoreKeys = SpliceOut(@, i)]
      ELSE N,
      i - 1)

\* Step 2 of sourceDidFetchUpdate, "Normalise the update from the server":
\* the removed store keys the composition all of the preemptive updates
\* removed, and those it did not that are in the list.
RemovedByPreemptives(all, removed) ==
    SelectSeq(removed, LAMBDA sk : IndexOf(all.removedStoreKeys, sk) > -1)
RemovedFromList(Q, all, removed) ==
    SelectSeq(removed,
              LAMBDA sk : /\ IndexOf(all.removedStoreKeys, sk) = -1
                          /\ IndexOf(Q.storeKeys, sk) > -1)

\* composeUpdates(allPreemptives, {removedIndexes: indexesToRemove,
\* removedStoreKeys: storeKeysToRemove, addedIndexes: [],
\* addedStoreKeys: []}), with the store keys it was asked for.
ComposedRemoval(Q, all, storeKeysToRemove) ==
    [storeKeys |-> storeKeysToRemove,
     update |->
         ComposeUpdates(
           all,
           [removedIndexes |-> [i \in DOMAIN storeKeysToRemove |->
                                   IndexOf(Q.storeKeys, storeKeysToRemove[i])],
            removedStoreKeys |-> storeKeysToRemove,
            addedIndexes |-> <<>>, addedStoreKeys |-> <<>>,
            truncateAtFirstGap |-> FALSE, total |-> NoTotal, upToId |-> 0])]

\* The store keys of sks that u removes, and the indexes u removes them at.
RemovedIn(u, sks) ==
    SelectSeq(sks, LAMBDA sk : IndexOf(u.removedStoreKeys, sk) > -1)
RemovedAt(u, sks) ==
    [i \in DOMAIN sks |->
        u.removedIndexes[IndexOf(u.removedStoreKeys, sks[i]) + 1]]

\* The normalised update out of the sorted removed indexes and store keys
\* and the update u of the source.
NormalisedFrom(sorted, u) ==
    DropIdempotent(
      [removedIndexes |-> sorted.a1, removedStoreKeys |-> sorted.a2,
       addedIndexes |-> [i \in DOMAIN u.added |-> u.added[i].index],
       addedStoreKeys |-> [i \in DOMAIN u.added |-> u.added[i].storeKey],
       truncateAtFirstGap |-> Len(sorted.a2) < Len(u.removed),
       total |-> u.total, upToId |-> u.upToId],
      Len(u.added) - 1)

\* A removed store key has the index the preemptive updates removed it at;
\* failing that its index in the list, composed with them.
NormaliseWith(all, u, fromPreemptives, composed) ==
    NormalisedFrom(
      SortLinked(RemovedAt(all, fromPreemptives)
                   \o RemovedAt(composed.update,
                                RemovedIn(composed.update,
                                          composed.storeKeys)),
                 fromPreemptives
                   \o RemovedIn(composed.update, composed.storeKeys)),
      u)
NormaliseAgainst(Q, allPreemptives, u) ==
    NormaliseWith(allPreemptives, u,
                  RemovedByPreemptives(allPreemptives, u.removed),
                  ComposedRemoval(Q, allPreemptives,
                                  RemovedFromList(Q, allPreemptives,
                                                  u.removed)))

\* A loop that finds no composition equal.
NoneEqual(N, preemptives, i) == 0

\* The loop of step 3: the largest i with composed[i] equal to the
\* normalised update, counted from 1; 0 when there is none.
RECURSIVE EqualPrefix(_, _, _)
EqualPrefix(N, preemptives, i) ==
    IF i < 1 THEN 0
    ELSE IF UpdateIsEqual(N, Composed(preemptives, i)) THEN i
    ELSE EqualPrefix(N, preemptives, i - 1)

\* The stack emptied with the list left as it is.
DropPreemptives(Q) == [Q EXCEPT !.preemptives = <<>>]

\* _applyUpdate(invertUpdate(preemptives.reduce(composeUpdates))) followed
\* by preemptives.length = 0.  reduce hands back the one update of an array
\* of one, which invertUpdate then changes in the array itself.
UndoWith(Q, inverted) ==
    [ApplyUpdateAll(IF Len(Q.preemptives) = 1
                    THEN [Q EXCEPT !.preemptives = <<inverted>>] ELSE Q,
                    inverted)
     EXCEPT !.preemptives = <<>>]
UndoPreemptives(Q) ==
    UndoWith(Q, InvertUpdate(Composed(Q.preemptives, Len(Q.preemptives))))

\* "Map ids to store keys": the update with store keys for ids, each
\* removed store key once.
MappedUpdate(update) ==
    [removed |-> Deduplicate([i \in DOMAIN update.removed |->
                                 ToStoreKey(update.removed[i])], 1),
     added |-> [i \in DOMAIN update.added |->
                   [index |-> update.added[i].index,
                    storeKey |-> ToStoreKey(update.added[i].id)]],
     total |-> update.total,
     upToId |-> IF update.upToId = "" THEN 0 ELSE ToStoreKey(update.upToId)]

\* sourceDidFetchUpdate, the branch taken when the normalised update is
\* empty or equal to composed[i - 1]: "Truncate if needed" ...
TruncateIfNeeded(Q, gap) ==
    IF Len(Q.storeKeys) # gap
    THEN RecalculateFetchedWindows([Q EXCEPT !.storeKeys = SetLength(@, gap)],
                                   gap, Q.length)
    ELSE Q
\* ... then, with the first i preemptive updates spliced out, "If we aren't
\* in the dirty state, we shouldn't have any preemptive updates left", or
\* else the waiting packets.
AfterMatch(Q, dirty) ==
    IF ~dirty /\ Len(Q.preemptives) > 0 THEN UndoPreemptives(Q)
    ELSE ApplyWaitingPackets(Q)
\* The branch with no preemptive update spliced out.
MatchedNone(Q, dirty, N, i) == AfterMatch(Q, dirty)
Matched(Q, dirty, N, i) ==
    AfterMatch(
      IF N.truncateAtFirstGap
      THEN TruncateIfNeeded(
             [Q EXCEPT !.preemptives = SubSeq(@, i + 1, Len(@))],
             FirstGap(Q.storeKeys, 0))
      ELSE [Q EXCEPT !.preemptives = SubSeq(@, i + 1, Len(@))],
      dirty)

\* sourceDidFetchUpdate with preemptive updates outstanding: N is the
\* normalised update, allPreemptives their composition.
Reconcile(Q, dirty, allPreemptives, N) ==
    IF Len(N.removedStoreKeys) = 0 /\ Len(N.addedStoreKeys) = 0
    THEN Matched(Q, dirty, N, 0)
    ELSE IF EqualPrefix(N, Q.preemptives, Len(Q.preemptives)) > 0
    THEN Matched(Q, dirty, N,
                 EqualPrefix(N, Q.preemptives, Len(Q.preemptives)))
    ELSE ApplyUpdateAll([Q EXCEPT !.preemptives = <<>>],
                        ComposeUpdates(InvertUpdate(allPreemptives), N))

\* sourceDidFetchUpdate once the update is known to follow the query's
\* queryState: Q has the new queryState, u is the update with store keys.
FollowUpdate(Q, dirty, u) ==
    IF Len(Q.preemptives) = 0
    THEN ApplyUpdateAll(Q, NormaliseUpdate(Q, u))
    ELSE Reconcile(Q, dirty, Composed(Q.preemptives, Len(Q.preemptives)),
                   NormaliseAgainst(
                     Q, Composed(Q.preemptives, Len(Q.preemptives)), u))

\* An update followed whatever queryState it starts from.
FollowAnyUpdate(Q, update) ==
    FollowUpdate([Q EXCEPT !.status = @ \ {LOADING},
                           !.queryState = update.newQueryState],
                 DIRTY \in Q.status, MappedUpdate(update))

\* sourceDidFetchUpdate(update)
SourceDidFetchUpdate(Q, update) ==
    IF Q.queryState = update.newQueryState
    THEN IF Len(Q.preemptives) > 0 /\ DIRTY \notin Q.status
         THEN UndoPreemptives([Q EXCEPT !.status = @ \ {LOADING}])
         ELSE [Q EXCEPT !.status = @ \ {LOADING}]
    ELSE IF Q.queryState # update.oldQueryState
    THEN SetObsolete([Q EXCEPT !.status = @ \ {LOADING}])
    ELSE FollowUpdate([Q EXCEPT !.status = @ \ {LOADING},
                                !.queryState = update.newQueryState],
                      DIRTY \in Q.status, MappedUpdate(update))

\* sourceWillFetchQuery(), as far as the status goes, when a refresh was
\* requested or the query is EMPTY; hasChanges is what
\* store.hasChangesForType(Type) answers.
SourceWillFetchQuery(Q, hasChanges) ==
    LET s == (Q.status \cup {LOADING}) \ {OBSOLETE} IN
    [Q EXCEPT !.status = IF DIRTY \in s /\ ~hasChanges THEN s \ {DIRTY}
                         ELSE s]

\* The source's list at each queryState it has: the query starts at 's1';
\* 's2' is 's1' without id2, 's3' is 's1' with id4 for id3.
QueryStates == {"s1", "s2", "s3"}
ServerList(q) ==
    CASE q = "s1" -> <<"id1", "id2", "id3">>
      [] q = "s2" -> <<"id1", "id3">>
      [] OTHER -> <<"id1", "id2", "id4">>
\* A packet of ids: a queryState, a position, the ids of the window of the
\* source's list that starts there, and the total.
Packets ==
    {[queryState |-> c[1], position |-> c[2],
      ids |-> SubSeq(ServerList(c[1]), c[2] + 1,
                     Min(c[2] + WindowSize, Len(ServerList(c[1])))),
      total |-> Len(ServerList(c[1]))] :
        c \in {x \in QueryStates \X {0, WindowSize} :
                  x[2] < Len(ServerList(x[1]))}}
\* A preemptive update: at most one store key removed, at most one added,
\* not both none; what is added is not in the list unless it is removed,
\* and is added within the list or at its end.
ClientUpdates ==
    {u \in [removed : {<<>>} \cup {<<sk>> : sk \in {2, 3}},
            added : {<<>>} \cup {<<[index |-> i, storeKey |-> sk]>> :
                                    i \in {1, 2}, sk \in {MaxSourceKeys}},
            total : {NoTotal}, upToId : {0}] :
        /\ u.removed # <<>> \/ u.added # <<>>
        /\ \A i \in DOMAIN u.added :
               /\ \/ IndexOf(storeKeys, u.added[i].storeKey) = -1
                  \/ u.removed = <<u.added[i].storeKey>>
               /\ u.added[i].index
                    <= Len(storeKeys)
                       - Cardinality({j \in DOMAIN u.removed :
                                        IndexOf(storeKeys, u.removed[j]) > -1})}
\* An update of the source from one queryState to another: the ids that
\* left the list, the ids that came with their indexes, the total, no
\* upToId.  The source may also name id1, which stays first, as removed
\* and added again.
Left(old, new) ==
    SelectSeq(ServerList(old),
              LAMBDA id : \A j \in DOMAIN ServerList(new) :
                              ServerList(new)[j] # id)
Came(old, new) ==
    SelectSeq([i \in DOMAIN ServerList(new) |->
                  [index |-> i - 1, id |-> ServerList(new)[i]]],
              LAMBDA a : \A j \in DOMAIN ServerList(old) :
                             ServerList(old)[j] # a.id)
SourceUpdates ==
    {[oldQueryState |-> c[1], newQueryState |-> c[2],
      removed |-> IF c[3] THEN <<"id1">> \o Left(c[1], c[2])
                  ELSE Left(c[1], c[2]),
      added |-> IF c[3] THEN <<[index |-> 0, id |-> "id1"]>>
                             \o Came(c[1], c[2])
                ELSE Came(c[1], c[2]),
      total |-> Len(ServerList(c[2])), upToId |-> ""] :
        c \in {x \in QueryStates \X QueryStates \X BOOLEAN :
                  x[3] => Len(Left(x[1], x[2])) <= 1}}

\* The query was called and is now R; the store is as it was.
QueryBecomes(R, op, before) ==
    /\ steps < MaxSteps
    /\ \E r \in {R} :
        /\ Len(r.storeKeys) <= MaxList
        /\ r.length \in 0..MaxTotal
        /\ Len(r.preemptives) <= MaxPreemptive
        /\ Len(r.waitingPackets) <= MaxWaiting
        /\ storeKeys' = r.storeKeys
        /\ windows' = r.windows
        /\ length' = r.length
        /\ queryState' = r.queryState
        /\ queryStatus' = r.status
        /\ preemptiveUpdates' = r.preemptives
        /\ waitingPackets' = r.waitingPackets
        /\ updatedEvents' = r.fired
        /\ beforePreemptives' = IF r.preemptives = <<>> THEN NoBefore
                                ELSE before
    /\ last' = [op |-> op, sk |-> 0, key |-> 0, ret |-> FALSE, pre |-> NoPre]
    /\ steps' = steps + 1
    /\ UNCHANGED storeTables
    /\ UNCHANGED sideVars

\* The query as it was when the oldest outstanding preemptive update was
\* made, and the list and length it has n of them later.
Before ==
    [WQuery EXCEPT !.storeKeys = beforePreemptives.storeKeys,
                   !.length = beforePreemptives.length,
                   !.preemptives = <<>>]
BeforeTheRest(B) ==
    [known |-> TRUE, storeKeys |-> B.storeKeys, length |-> B.length]

\* The source delivers a packet of ids.  A packet written into the list
\* while preemptive updates are outstanding is one the list they started
\* from would have had as well.
SourceDidFetchIdsCall ==
    \E args \in Packets :
        LET R == SourceDidFetchIds(WQuery, args) IN
        QueryBecomes(R, "sourceDidFetchIds",
                     IF R.storeKeys = storeKeys /\ R.length = length
                     THEN beforePreemptives
                     ELSE IF beforePreemptives.known
                     THEN BeforeTheRest(SourceDidFetchIds(Before, args))
                     ELSE NoBefore)

\* The application makes a preemptive update.
ClientDidGenerateUpdateCall ==
    \E update \in ClientUpdates :
        QueryBecomes(ClientDidGenerateUpdate(WQuery, update),
                     "clientDidGenerateUpdate",
                     IF preemptiveUpdates = <<>>
                     THEN [known |-> TRUE, storeKeys |-> storeKeys,
                           length |-> length]
                     ELSE beforePreemptives)

\* The source delivers an update.  When it confirms the first preemptive
\* updates and leaves the list alone, those left start from the list the
\* confirmed ones made.
SourceDidFetchUpdateCall ==
    \E update \in SourceUpdates :
        LET R == SourceDidFetchUpdate(WQuery, update) IN
        QueryBecomes(R, "sourceDidFetchUpdate",
                     IF R.storeKeys # storeKeys \/ R.length # length
                        \/ ~beforePreemptives.known
                     THEN NoBefore
                     ELSE IF R.preemptives = preemptiveUpdates
                     THEN beforePreemptives
                     ELSE IF R.fired = 0 /\ R.preemptives # <<>>
                     THEN BeforeTheRest(
                            ApplyUpdate(
                              Before,
                              Composed(preemptiveUpdates,
                                       Len(preemptiveUpdates)
                                         - Len(R.preemptives))))
                     ELSE NoBefore)

\* The source starts to fetch the query, after a refresh was requested.
SourceWillFetchQueryCall ==
    \E hasChanges \in BOOLEAN :
        QueryBecomes(SourceWillFetchQuery(WQuery, hasChanges),
                     "sourceWillFetchQuery", beforePreemptives)

\* The query after sourceDidFetchIds({queryState: 's1', position: 0,
\* ids: the first n ids of the source's list, total: 3}) on the query just
\* made.
Listed(n) ==
    SourceDidFetchIds(
      [storeKeys |-> <<>>, windows |-> <<>>, length |-> 0, queryState |-> "",
       status |-> {EMPTY}, preemptives |-> <<>>, waitingPackets |-> <<>>,
       fired |-> 0],
      [queryState |-> "s1", position |-> 0,
       ids |-> SubSeq(ServerList("s1"), 1, n),
       total |-> Len(ServerList("s1"))])
\* The query has its first window, or all of the list.
InitListed ==
    /\ InitStore
    /\ accounts = {}
    /\ typeStatus = [a \in Accounts |-> {}]
    /\ clientState = [a \in Accounts |-> NoState]
    /\ serverState = [a \in Accounts |-> NoState]
    /\ rebaseConflicts = TRUE
    /\ \E n \in {Min(WindowSize, Len(ServerList("s1"))),
                 Len(ServerList("s1"))} :
           /\ storeKeys = Listed(n).storeKeys
           /\ windows = Listed(n).windows
           /\ length = Listed(n).length
           /\ queryState = Listed(n).queryState
           /\ queryStatus = Listed(n).status
    /\ preemptiveUpdates = <<>>
    /\ waitingPackets = <<>>
    /\ updatedEvents = 0
    /\ beforePreemptives = NoBefore

NextSource ==
    \/ SourceDidFetchIdsCall
    \/ ClientDidGenerateUpdateCall
    \/ SourceDidFetchUpdateCall
    \/ SourceWillFetchQueryCall

SpecSource == InitListed /\ [][NextSource]_vars

\* The query after sourceDidFetchIds({queryState: 's1', position: position,
\* ids: the window of the source's list that starts there, total: 3}) on
\* the query just made: fetchDataForObjectAt asks for the window of the
\* index that is read, which need not be the first.
ListedAt(position) ==
    SourceDidFetchIds(
      [storeKeys |-> <<>>, windows |-> <<>>, length |-> 0, queryState |-> "",
       status |-> {EMPTY}, preemptives |-> <<>>, waitingPackets |-> <<>>,
       fired |-> 0],
      [queryState |-> "s1", position |-> position,
       ids |-> SubSeq(ServerList("s1"), position + 1,
                      Min(position + WindowSize, Len(ServerList("s1")))),
       total |-> Len(ServerList("s1"))])
\* The query has one window of the list, the first or the second, or all
\* of the list.
InitListedAt ==
    /\ InitStore
    /\ accounts = {}
    /\ typeStatus = [a \in Accounts |-> {}]
    /\ clientState = [a \in Accounts |-> NoState]
    /\ serverState = [a \in Accounts |-> NoState]
    /\ rebaseConflicts = TRUE
    /\ \E Q \in {ListedAt(position) :
                    position \in {p \in {0, WindowSize} :
                                     p < Len(ServerList("s1"))}}
                \cup {Listed(Len(ServerList("s1")))} :
           /\ storeKeys = Q.storeKeys
           /\ windows = Q.windows
           /\ length = Q.length
           /\ queryState = Q.queryState
           /\ queryStatus = Q.status
    /\ preemptiveUpdates = <<>>
    /\ waitingPackets = <<>>
    /\ updatedEvents = 0
    /\ beforePreemptives = NoBefore

SpecListedAt == InitListedAt /\ [][NextSource]_vars

\* ---------------------------------------------------- LocalQuery: actions
\* The application makes the query.
NewLocalQueryCall ==
    /\ ~localQuery.made
    /\ \E q \in LocalQueries :
           localQuery' = NewLocalQuery(Store, q[1], q[2])
    /\ UNCHANGED <<storeVars, queryVars, wcs, localStorage>>

\* The application calls fetch(force).
LocalFetchCall ==
    /\ localQuery.made
    /\ \E force \in BOOLEAN : localQuery' = Fetch(Store, localQuery, force)
    /\ UNCHANGED <<storeVars, queryVars, wcs, localStorage>>

\* The store fires the event of the type after a change to its records.
LocalSetObsoleteCall ==
    /\ localQuery.made
    /\ localQuery' = SetLocalObsolete(Store, localQuery)
    /\ UNCHANGED <<storeVars, queryVars, wcs, localStorage>>

\* A store with a LocalQuery on it: accounts are added, records are loaded,
\* created, edited, destroyed, reported missing and unloaded.
NextLocal ==
    \/ AddAccountCall
    \/ SourceDidFetchRecordsCall
    \/ SaveToStoreCall
    \/ UpdateDataCall
    \/ DestroyRecordCall
    \/ SourceCouldNotFindRecordsCall
    \/ UnloadRecordCall
    \/ NewLocalQueryCall
    \/ LocalFetchCall
    \/ LocalSetObsoleteCall

SpecLocal == Init /\ [][NextLocal]_vars

\* The controllers and the storage item become W; the store and the
\* queries are as they were.
WindowsBecome(W) ==
    /\ wcs' = W.wc
    /\ localStorage' = W.item
    /\ UNCHANGED <<storeVars, queryVars, localQuery>>

\* A window opens and makes its WindowController.
WindowInitCall ==
    \E id \in WinIds :
        /\ wcs[id].state = "none"
        /\ WindowsBecome(WindowInit(WCs, id))

\* A window is closed (its unload event calls destroy), or the application
\* destroys the controller.
WindowDestroyCall ==
    \E id \in Opened(WCs) : WindowsBecome(WindowDestroy(WCs, id))

\* The browser delivers to a window the next storage event from one of the
\* other windows.
HandleEventCall ==
    \E id \in Opened(WCs) :
    \E sender \in {wcs[id].events[i].wcId : i \in DOMAIN wcs[id].events} :
        LET i == FirstFrom(wcs[id].events, sender) IN
        WindowsBecome(
          HandleEvent([WCs EXCEPT !.wc[id].events = Without(@, i)],
                      id, wcs[id].events[i]))

\* The next event loop of a window runs the checkMaster its init put off.
CheckMasterCall ==
    \E id \in Opened(WCs) :
        /\ wcs[id].checkQueued
        /\ WindowsBecome(
             [WCs EXCEPT !.wc[id] =
                 [CheckMaster(@, id) EXCEPT !.checkQueued = FALSE]])

NextWindows ==
    \/ WindowInitCall
    \/ WindowDestroyCall
    \/ HandleEventCall
    \/ CheckMasterCall

\* Every storage event that was fired is delivered while its window is
\* open, and an event loop that was asked for comes.
SpecWindows ==
    /\ Init /\ [][NextWindows]_vars
    /\ WF_vars(HandleEventCall)
    /\ WF_vars(CheckMasterCall)

\* ------------------------------------------------------------------ claims
\* C1: at most one commit is in flight: source.commitChanges is never called
\* while the done callback of an earlier call has not fired, and a run of
\* commitChanges that finds isCommitting set sends nothing and touches nothing.
C1_OneCommitInFlight ==
    /\ [](openCommits <= 1)
    /\ [][(isCommitting /\ last'.op = "flush")
            => UNCHANGED <<sent, inflight, openCommits, skToStatus, skToData,
                           skToChanged, skToCommitted, skToRollback, created,
                           destroyed, typeStatus, isCommitting>>]_vars
\* A commit is in flight, commitChanges has just run, and the changes made
\* meanwhile are still pending.
C1_Witness ==
    /\ last.op = "flush" /\ openCommits = 1 /\ isCommitting
    /\ inflight.create # {} /\ created # <<>>

\* An exception left commitChanges or its done callback: isCommitting is set
\* and the source holds no commit, so nothing will ever clear it.
Wedged == isCommitting /\ openCommits = 0

C3_CommittingHasRollback ==
    \A sk \in K : COMMITTING \in skToStatus[sk] => IsDef(skToRollback[sk])

\* C3, amended: only the update loop of commitChanges keeps rollback data.
\* A record whose update the source holds and that is still COMMITTING has
\* rollback data.
C3_UpdateHasRollback ==
    \A sk \in inflight.update :
        COMMITTING \in skToStatus[sk] => IsDef(skToRollback[sk])
\* commitChanges has just sent the update of a record.
C3_Witness ==
    /\ last.op = "flush"
    /\ \E sk \in inflight.update :
          /\ sk \in sent.update
          /\ skToStatus[sk] = {READY, COMMITTING}
          /\ IsDef(skToRollback[sk])

\* C4: the status of every store key, as getStatus reports it, holds exactly
\* one of the core bits EMPTY, READY, DESTROYED, NON_EXISTENT.
C4_OneCoreState ==
    \A sk \in K : Cardinality(GetStatus(Store, sk) \cap CoreBits) = 1

\* C5: a store key whose status is EMPTY (loading or not, unloaded or never
\* loaded) or NON_EXISTENT has no entry in the data table.
C5_EmptyHasNoData ==
    \A sk \in K : GetStatus(Store, sk) \cap {EMPTY, NON_EXISTENT} # {}
                    => ~IsDef(skToData[sk])
\* A record that was READY has been unloaded; another was reported missing.
C5_Witness ==
    /\ last.op = "unloadRecord" /\ last.ret
    /\ GetStatus(Store, last.sk) = {EMPTY}
    /\ \E sk \in K : skToStatus[sk] = {NON_EXISTENT}

\* C6 as stated: the type and the account a store key was minted with never
\* change, and a move gives the copy a store key of its own.
C6_KeyAccountFixed ==
    [][\A sk \in Minted :
          /\ skToType'[sk] = skToType[sk]
          /\ skToAccountId'[sk] = skToAccountId[sk]
          /\ (last'.op = "moveRecord" /\ last'.sk = sk) => last'.key # sk]_vars

\* C6, amended: the type never changes and a move gives the copy a store key
\* of its own, leaving the original's account alone; the account of a store
\* key changes in two places only: updateData of a record that is exactly
\* READY|NEW|DIRTY with an accountId in the patch, and addAccount with a
\* replaceAccountId, which re-files every key of the replaced account.
C6_KeyAccountChangesOnlyBy ==
    [][\A sk \in Minted :
          /\ skToType'[sk] = skToType[sk]
          /\ (last'.op = "moveRecord" /\ last'.sk = sk)
                => (last'.key # sk /\ skToAccountId'[sk] = skToAccountId[sk])
          /\ skToAccountId'[sk] # skToAccountId[sk]
                => \/ /\ last'.op \in {"updateData", "updateDataClean"}
                      /\ last'.sk = sk
                      /\ skToStatus[sk] = {READY, NEWBIT, DIRTY}
                   \/ /\ last'.op = "addAccount"
                      /\ skToAccountId[sk] \notin accounts']_vars
\* updateData has just given a new record another account.
C6_Witness ==
    \E sk \in Minted :
        /\ last.op = "updateData" /\ last.sk = sk
        /\ last.pre.status = {READY, NEWBIT, DIRTY}
        /\ last.pre.data["accountId"] # skToAccountId[sk]
        /\ skToData[sk]["accountId"] = skToAccountId[sk]

\* C7: once getStoreKey has tied an id of an account to a store key, no
\* operation on records and no source callback ties it to another one (the
\* step that re-files whole accounts, addAccount, is left aside).
C7_IdMappingStable ==
    [][\A a \in Accounts, id \in Ids :
          (last'.op # "addAccount" /\ idToSK[a][id] # 0)
             => idToSK'[a][id] = idToSK[a][id]]_vars

\* The tables of the store.
tables == <<nextStoreKey, accounts, skToType, skToAccountId, skToId, idToSK,
            typeStatus, clientState, serverState, skToStatus, skToData,
            skToChanged, skToCommitted, skToRollback, skToRecord, hasObs,
            skToLastAccess, created, destroyed, isCommitting, commitQueued,
            fetching, inflight, openCommits, sent>>

\* C8: unloadRecord(sk) returns true exactly when the status has none of
\* COMMITTING, NEW, DIRTY and the record instance, if there is one, has no
\* observers; it then drops data, status, rollback, record instance and
\* lastAccess of sk; otherwise it returns false and changes no table.
C8_UnloadOnlyWhenSafe ==
    [][last'.op = "unloadRecord" =>
         LET sk == last'.sk
             safe == /\ GetStatus(Store, sk) \cap {COMMITTING, NEWBIT, DIRTY} = {}
                     /\ ~(skToRecord[sk] /\ hasObs[sk])
         IN /\ last'.ret = safe
            /\ safe => /\ ~IsDef(skToData'[sk])
                       /\ skToStatus'[sk] = {}
                       /\ ~IsDef(skToRollback'[sk])
                       /\ ~skToRecord'[sk]
                       /\ ~skToLastAccess'[sk]
            /\ ~safe => UNCHANGED tables]_vars
\* A READY record with a record instance nobody observes has just been
\* unloaded.
C8_Witness ==
    /\ last.op = "unloadRecord" /\ last.ret
    /\ last.pre.status = {READY} /\ IsDef(last.pre.data)
    /\ skToStatus[last.sk] = {} /\ ~IsDef(skToData[last.sk])

\* C9: updateData(sk, patch, true) on a READY record with nothing else
\* pending, followed at once by discardChanges(), gives back the data, the
\* changed set and the status the record had, and leaves nothing pending.
C9_UpdateDiscardRoundTrip ==
    (last.op = "discardChanges" /\ last.pre.status = {READY} /\ last.pre.clean)
      => /\ skToData[last.sk] = last.pre.data
         /\ Has(skToChanged, last.sk) = last.pre.hasChanged
         /\ skToStatus[last.sk] = last.pre.status
         /\ ~HasChanges(Store)

\* destroyRecord has just run on a record that createRecord made and that no
\* commit has picked up (the store has sent nothing to the source yet).
DestroyedUncommitted ==
    /\ last.op = "destroyRecord"
    /\ last.pre.status = {READY, NEWBIT, DIRTY} /\ last.pre.created
    /\ sent = NoSent /\ ~isCommitting
\* Nothing of sk is left for a commit to send.
NothingPending(sk) ==
    ~Has(created, sk) /\ ~Has(destroyed, sk) /\ ~Has(skToChanged, sk)

FreshlyCreated(sk) ==
    /\ Has(created, sk) /\ Val(created, sk) = 0
    /\ skToStatus[sk] = {READY, NEWBIT, DIRTY}
    /\ IsDef(skToData[sk]) /\ skToData[sk]["accountId"] \in accounts

\* The step is sourceDidCommitCreate({sk: {id: id}}).
IsCommitCreate(sk, id) ==
    /\ sk \in inflight.create
    /\ sk \notin inflight'.create
    /\ Becomes(SourceDidCommitCreate(Answered("create", sk), sk, id),
               "sourceDidCommitCreate", sk, NoPre, 0)

\* C11: a run of commitChanges that hands a change set to the source puts
\* every freshly created record in the create entry and leaves it
\* READY|NEW|COMMITTING; getIdFromStoreKey of a NEW record is null; and
\* sourceDidCommitCreate({sk: {id: x}}) for a record that is READY|NEW|COMMITTING
\* leaves getIdFromStoreKey(sk) = x, x mapped to sk in the record's account,
\* and the status exactly READY.
C11_CreateCommitLifecycle ==
    /\ [](\A sk \in K : NEWBIT \in skToStatus[sk]
                        => GetIdFromStoreKey(Store, sk) = NoId)
    /\ [][openCommits' = openCommits + 1 =>
            \A sk \in K : FreshlyCreated(sk) =>
                /\ sk \in sent'.create
                /\ skToStatus'[sk] = {READY, NEWBIT, COMMITTING}]_vars
    /\ [][\A sk \in K, id \in Ids :
            (/\ IsCommitCreate(sk, id)
             /\ skToStatus[sk] = {READY, NEWBIT, COMMITTING}
             /\ IsDef(skToData[sk]) /\ skToData[sk]["accountId"] \in accounts)
            => /\ GetIdFromStoreKey(Store, sk)' = id
               /\ idToSK'[skToData[sk]["accountId"]][id] = sk
               /\ skToStatus'[sk] = {READY}]_vars

\* A record that went out in the create entry of the commit still open has
\* been answered for and is READY under a source id that maps back to it.
C11_Witness ==
    \E sk \in K :
        /\ openCommits = 1
        /\ sk \in sent.create /\ sk \notin inflight.create
        /\ skToStatus[sk] = {READY}
        /\ GetIdFromStoreKey(Store, sk) # NoId
        /\ IsDef(skToData[sk])
        /\ idToSK[skToData[sk]["accountId"]][skToId[sk]] = sk

\* The step is sourceDidFetchPartialRecords(acct, T, {id: patch}), the patch
\* carrying no primary key.
IsFetchPartial(acct, id, patch) ==
    Becomes(SourceDidFetchPartialRecords(Store, acct, id, patch, NoId),
            "sourceDidFetchPartialRecords", 0, NoPre, 1)

\* The record the patch is for is READY|DIRTY with its changed and committed
\* entries.
DirtyRecordOf(acct, id) ==
    /\ acct \in accounts
    /\ idToSK[acct][id] # 0
    /\ skToStatus[idToSK[acct][id]] = {READY, DIRTY}
    /\ Has(skToChanged, idToSK[acct][id])
    /\ IsDef(skToCommitted[idToSK[acct][id]])

\* What the rebase is said to produce for store key sk and the patch: the
\* keys changed locally keep the local value and every other key takes the
\* value of the new committed data.
RebaseExpected(sk, patch) ==
    LET update == Assign(skToCommitted[sk], patch)
        local == ChangedKeys(Val(skToChanged, sk))
        still == {k \in local : skToData[sk][k] # update[k]}
    IN [data |-> [k \in AllKeys |-> IF k \in local THEN skToData[sk][k]
                                    ELSE update[k]],
        committed |-> update,
        still |-> still]

\* C12: with rebaseConflicts, a patch delivered for a READY|DIRTY record
\* leaves every locally changed key at its local value and gives every other
\* key the server value; the keys still changed are the locally changed keys
\* that differ from the new committed data; if there are any, committed is
\* the old committed data overlaid with the patch and the record is
\* READY|DIRTY, and if there are none the record is READY with no changed and
\* no committed entry.
C12_RebaseKeepsLocalTakesServer ==
    [][\A acct \in Accounts, id \in Ids, patch \in ServerPatches :
        (rebaseConflicts /\ DirtyRecordOf(acct, id)
         /\ IsFetchPartial(acct, id, patch))
        => LET sk == idToSK[acct][id]
               want == RebaseExpected(sk, patch)
           IN /\ skToData'[sk] = want.data
              /\ IF want.still # {}
                 THEN /\ skToCommitted'[sk] = want.committed
                      /\ Has(skToChanged', sk)
                      /\ {k \in AllKeys : Val(skToChanged', sk)[k] = "true"}
                             = want.still
                      /\ skToStatus'[sk] = {READY, DIRTY}
                 ELSE /\ ~IsDef(skToCommitted'[sk])
                      /\ ~Has(skToChanged', sk)
                      /\ skToStatus'[sk] = {READY}]_vars

\* C13: without rebaseConflicts, a patch delivered for a READY|DIRTY record
\* discards the local changes: the data is the committed data overlaid with
\* the patch, the changed and committed entries are gone, the status is READY
\* and the record is in none of the pending sets.
C13_ConflictDiscardsLocal ==
    [][\A acct \in Accounts, id \in Ids, patch \in ServerPatches :
        (~rebaseConflicts /\ DirtyRecordOf(acct, id)
         /\ IsFetchPartial(acct, id, patch))
        => LET sk == idToSK[acct][id] IN
           /\ skToData'[sk] = Assign(skToCommitted[sk], patch)
           /\ ~Has(skToChanged', sk)
           /\ ~IsDef(skToCommitted'[sk])
           /\ skToStatus'[sk] = {READY}
           /\ ~Has(created', sk) /\ ~Has(destroyed', sk)]_vars

\* The step is sourceCouldNotFindRecords(acct, T, [id]).
IsCouldNotFind(acct, id) ==
    LET R == SourceCouldNotFindRecords(Store, acct, id) IN
    Becomes(R, "sourceCouldNotFindRecords", R.key, NoPre, 1)

\* C14: sourceCouldNotFindRecords(acct, T, [id]) returns without throwing;
\* a record that was EMPTY (loading or not) or NON_EXISTENT is exactly
\* NON_EXISTENT afterwards; a record in any other status has no changed and
\* no committed entry afterwards and is unloaded (no status entry, no data).
C14_CouldNotFind ==
    [][\A acct \in Accounts, id \in Ids :
        (acct \in accounts /\ IsCouldNotFind(acct, id))
        => LET R == SourceCouldNotFindRecords(Store, acct, id)
               sk == R.key
               before == IF sk \in Minted THEN GetStatus(Store, sk) ELSE {EMPTY}
           IN /\ ~R.err
              /\ IF before \cap {EMPTY, NON_EXISTENT} # {}
                 THEN skToStatus'[sk] = {NON_EXISTENT}
                 ELSE /\ ~Has(skToChanged', sk)
                      /\ ~IsDef(skToCommitted'[sk])
                      /\ skToStatus'[sk] = {}
                      /\ ~IsDef(skToData'[sk])]_vars

\* The step is sourceDidNotCreate/Update/Destroy([sk], isPermanent, errors).
IsDidNotCreate(sk, isPermanent, prevented) ==
    /\ sk \in inflight.create
    /\ Becomes(SourceDidNotCreate(Answered("create", sk), sk, isPermanent,
                                  prevented),
               "sourceDidNotCreate", sk, NoPre, 0)
IsDidNotUpdate(sk, isPermanent, prevented) ==
    /\ sk \in inflight.update
    /\ Becomes(SourceDidNotUpdate(Answered("update", sk), sk, isPermanent,
                                  prevented),
               "sourceDidNotUpdate", sk, NoPre, 0)
IsDidNotDestroy(sk, isPermanent, prevented) ==
    /\ sk \in inflight.destroy
    /\ Becomes(SourceDidNotDestroy(Answered("destroy", sk), sk, isPermanent,
                                   prevented),
               "sourceDidNotDestroy", sk, NoPre, 0)

\* The record is as commitChanges left it when it submitted the change.
CommittingCreate(sk) ==
    sk \in inflight.create /\ skToStatus[sk] = {READY, NEWBIT, COMMITTING}
CommittingUpdate(sk) ==
    /\ sk \in inflight.update /\ skToStatus[sk] = {READY, COMMITTING}
    /\ IsDef(skToRollback[sk])
CommittingDestroy(sk) ==
    sk \in inflight.destroy /\ skToStatus[sk] = {DESTROYED, COMMITTING}

C16_PermanentFailureReverts ==
    [][\A sk \in K :
        /\ (CommittingCreate(sk) /\ IsDidNotCreate(sk, TRUE, FALSE))
           => /\ skToStatus'[sk] = {} /\ ~IsDef(skToData'[sk])
              /\ ~Has(created', sk) /\ ~Has(destroyed', sk)
              /\ ~Has(skToChanged', sk)
        /\ (CommittingUpdate(sk) /\ IsDidNotUpdate(sk, TRUE, FALSE))
           => /\ skToData'[sk] = skToRollback[sk]
              /\ DIRTY \notin skToStatus'[sk]
              /\ ~Has(skToChanged', sk)
        /\ (CommittingDestroy(sk) /\ IsDidNotDestroy(sk, TRUE, FALSE))
           => /\ skToStatus'[sk] = {READY}
              /\ skToData'[sk] = skToData[sk] /\ IsDef(skToData[sk])
              /\ ~Has(destroyed', sk)
        /\ (CommittingCreate(sk) /\ IsDidNotCreate(sk, TRUE, TRUE))
           => IsDidNotCreate(sk, FALSE, FALSE)
        /\ (CommittingUpdate(sk) /\ IsDidNotUpdate(sk, TRUE, TRUE))
           => IsDidNotUpdate(sk, FALSE, FALSE)
        /\ (CommittingDestroy(sk) /\ IsDidNotDestroy(sk, TRUE, TRUE))
           => IsDidNotDestroy(sk, FALSE, FALSE)]_vars

\* The call is one the store refuses.
BadCreate(sk) ==
    GetStatus(Store, sk) # {EMPTY} /\ GetStatus(Store, sk) # {DESTROYED}
BadUpdate(sk, changeIsDirty) ==
    \/ ~IsDef(skToData[sk])
    \/ changeIsDirty /\ READY \notin GetStatus(Store, sk)

\* C17: in every state, a createRecord on a store key that is neither EMPTY
\* nor DESTROYED, and an updateData that marks dirty on a record that is not
\* READY or any updateData on a record without data, report through didError
\* and return the store as it was: no table changed, no commit scheduled;
\* updateData returns false.
C17_ProgrammingErrorsAreNoOps ==
    \A sk \in Minted :
        /\ BadCreate(sk) =>
             \A d \in NewData :
                 CreateRecord(Store, sk, d, 0)
                     = [Store EXCEPT !.didErr = "CANNOT_CREATE_EXISTING_RECORD"]
        /\ \A patch \in Patches, changeIsDirty \in BOOLEAN :
             BadUpdate(sk, changeIsDirty) =>
                 LET R == UpdateData(Store, sk, patch, changeIsDirty) IN
                 /\ R = [Store EXCEPT !.didErr = "CANNOT_WRITE_TO_UNREADY_RECORD"]
                 /\ ~R.ret

\* updateData(sk, patch, true) was just refused for a record that is loaded
\* no more (or not yet).
C17_Witness ==
    /\ last.op = "updateData" /\ ~last.ret
    /\ last.sk \in Minted
    /\ READY \notin last.pre.status

\* C18: with autoCommit, a run loop that flushes and a source that answers,
\* no change stays pending for ever (the created, changed and destroyed sets
\* are empty again and again, as each commit takes what is in them) and no
\* record stays COMMITTING for ever.
C18_EveryChangeIsSubmitted ==
    /\ []<>(~HasChanges(Store))
    /\ \A sk \in K : []<>(COMMITTING \notin skToStatus[sk])

\* This step is the source's sourceStateDidChange(a, T, new).
IsPush(a, new) ==
    /\ steps' = steps + 1
    /\ Becomes(SourceStateDidChange(Announced(a, new), a, new),
               "sourceStateDidChange", 0, NoPre, 1)

\* C19: a state announced by sourceStateDidChange that is not the client's
\* sets off no fetch while the type is LOADING or COMMITTING, and the type
\* is never left neither LOADING nor COMMITTING while such a state, still
\* not the client's, has not been asked for by a fetchAllRecords.
C19_PushedStateIsNeverLost ==
    /\ [][\A a \in accounts, new \in States :
            IsPush(a, new) /\ new # clientState[a] /\ Busy(a)
                => fetching' = fetching]_vars
    /\ [](\A a \in accounts :
            pushed[a] # NoState /\ pushed[a] # clientState[a] => Busy(a))

\* C20: after the updates applied by _applyUpdate, every index below length
\* holds a store key or lies in a window without the WINDOW_READY bit (the
\* length is the total of the last update by the last assignment of
\* _applyUpdate).
C20_ReadyWindowsHaveNoGap ==
    \A i \in 0..(length - 1) :
        \/ At(storeKeys, i) # 0
        \/ WINDOW_READY \notin
               (IF i \div WindowSize + 1 \in DOMAIN windows
                THEN windows[i \div WindowSize + 1] ELSE {})

\* This step is a moveRecord of a record that was READY and nothing else,
\* and it returned the store key of a copy.
MovedReady ==
    /\ last'.op = "moveRecord"
    /\ last'.sk \in Minted
    /\ skToStatus[last'.sk] = {READY}
    /\ last'.key # 0

\* The state is the one moveRecord left: the original DESTROYED in favour of
\* the copy, and this step is the commitChanges that reaches the source.
CommitsMove ==
    /\ last.op = "moveRecord"
    /\ last.sk \in Minted
    /\ last.key \in Minted
    /\ skToStatus[last.sk] = {DESTROYED, DIRTY}
    /\ skToStatus[last.key] = {READY, NEWBIT, DIRTY}
    /\ Has(destroyed, last.sk)
    /\ Val(destroyed, last.sk) = last.key
    /\ openCommits' = openCommits + 1

\* C24: moveRecord of a committed READY record leaves the original
\* DESTROYED|DIRTY and a new store key READY|NEW|DIRTY with a copy of the
\* data filed under the target account; the commitChanges that follows
\* submits for the pair exactly one item, the copy as a move from the
\* original's account with the original's id and the diff of the copy
\* against the original, and nothing for the original in destroy nor for
\* the copy in create.
C24_MoveIsSubmittedAsOneCopy ==
    /\ [][MovedReady =>
            LET sk == last'.sk
                c == last'.key
            IN /\ c \notin Minted
               /\ skToStatus'[sk] = {DESTROYED, DIRTY}
               /\ skToStatus'[c] = {READY, NEWBIT, DIRTY}
               /\ skToData'[c] =
                      [skToData[sk] EXCEPT !["accountId"] = skToAccountId'[c]]
               /\ Val(created', c) = sk]_vars
    /\ [][CommitsMove =>
            LET sk == last.sk
                c == last.key
            IN /\ {m \in sent'.move : m.sk = c} =
                      {[sk |-> c, from |-> sk,
                        toAccount |-> skToAccountId[c],
                        fromAccount |-> GetAccountIdFromStoreKey(Store, sk),
                        copyFromId |-> skToId[sk],
                        changes |-> {k \in ClientSettable :
                                       /\ HasKey(skToData[c], k)
                                       /\ skToData[c][k] # skToData[sk][k]}]}
               /\ \A d \in sent'.destroy : d.sk # sk
               /\ c \notin sent'.create
               /\ sk \notin sent'.update /\ c \notin sent'.update]_vars

\* A commit has just submitted a copy into another account, and its
\* original is DESTROYED and waits for the answer.
C24_Witness ==
    /\ last.op = "flush"
    /\ \E m \in sent.move :
           /\ m.toAccount # m.fromAccount
           /\ m.copyFromId # NoId
           /\ skToStatus[m.from] = {DESTROYED, COMMITTING}
           /\ skToStatus[m.sk] = {READY, NEWBIT, COMMITTING}
           /\ m.from \in sent.moved

\* This step is undestroyRecord(sk, Type, d) for some d, or with no data.
IsUndestroy(sk) ==
    \E d \in NewData \cup {Undef} :
        Becomes(UndestroyRecord(Store, sk, d, 0), "undestroyRecord", sk,
                NoPre, 1)

\* This step is the source's sourceDidCommitDestroy([sk]).
IsCommitDestroy(sk) ==
    /\ sk \in inflight.destroy
    /\ Becomes(SourceDidCommitDestroy(Answered("destroy", sk), sk),
               "sourceDidCommitDestroy", sk, NoPre, 0)

\* A record undestroyed while its destroy was in flight: READY|NEW|COMMITTING
\* (DIRTY or not) and in the created set.
Undestroyed(sk) ==
    /\ skToStatus[sk] \ {DIRTY} = {READY, NEWBIT, COMMITTING}
    /\ Has(created, sk)

\* sourceDidCommitDestroy of an undestroyed record makes it READY|NEW|DIRTY,
\* keeps its data and leaves it in the created set.
CommitDestroyOfUndestroyed ==
    \A sk \in Minted :
        Undestroyed(sk) /\ IsCommitDestroy(sk)
            => /\ skToStatus'[sk] = {READY, NEWBIT, DIRTY}
               /\ IsDef(skToData'[sk])
               /\ skToData'[sk] = skToData[sk]
               /\ Has(created', sk)

\* A READY|NEW|DIRTY record of the created set is in the create items of the
\* commit that reaches the source.
CreatedAgain ==
    \A sk \in Minted :
        /\ skToStatus[sk] = {READY, NEWBIT, DIRTY}
        /\ Has(created, sk) /\ Val(created, sk) = 0
        /\ openCommits' = openCommits + 1
        => sk \in sent'.create

UpdateInFlight(sk) ==
    /\ READY \in skToStatus[sk]
    /\ COMMITTING \in skToStatus[sk]
    /\ IsDef(skToRollback[sk])

\* C26: after a sourceDidNotUpdate that does not revert (not permanent, or a
\* listener prevented the default) for a READY record, committed is the
\* snapshot the commit saved in rollback, rollback is cleared, COMMITTING is
\* cleared, the data is as it was (edits made while the commit was in flight
\* included), changed is exactly the set of client-settable keys on which
\* the data differs from the snapshot, and DIRTY is set iff that set is not
\* empty.
C26_FailedUpdateRecomputesChanged ==
    [][\A sk \in Minted : \A isPermanent, prevented \in BOOLEAN :
        /\ UpdateInFlight(sk)
        /\ ~isPermanent \/ prevented
        /\ IsDidNotUpdate(sk, isPermanent, prevented)
        => LET snapshot == skToRollback[sk]
               diff == {k \in ClientSettable : skToData[sk][k] # snapshot[k]}
           IN /\ skToCommitted'[sk] = snapshot
              /\ ~IsDef(skToRollback'[sk])
              /\ COMMITTING \notin skToStatus'[sk]
              /\ skToData'[sk] = skToData[sk]
              /\ diff = (IF Has(skToChanged', sk)
                         THEN ChangedKeys(Val(skToChanged', sk)) ELSE {})
              /\ (DIRTY \in skToStatus'[sk]) <=> (diff # {})]_vars

\* C27: destroyRecord of a record whose create is in flight
\* (READY|NEW|COMMITTING) keeps NEW and COMMITTING beside DESTROYED|DIRTY and
\* files it in the destroyed set; no commit submits a destroy item for a
\* store key whose create is still in flight; sourceDidCommitCreate (the
\* record's account still there) gives it the id of the source and leaves
\* it DESTROYED|DIRTY in the destroyed set, and the commit that reaches the
\* source next submits it with that id; and no destroy item ever submitted
\* has a store key without an id.
C27_DestroyWaitsForCreate ==
    /\ [][\A sk \in Minted :
            /\ last'.op = "destroyRecord" /\ last'.sk = sk
            /\ skToStatus[sk] = {READY, NEWBIT, COMMITTING}
            => /\ skToStatus'[sk] = {DESTROYED, DIRTY, NEWBIT, COMMITTING}
               /\ Has(destroyed', sk)]_vars
    /\ [][\A d \in sent'.destroy \ sent.destroy :
            d.sk \notin inflight.create]_vars
    /\ [][\A sk \in Minted : \A id \in Ids :
            /\ skToStatus[sk] = {DESTROYED, DIRTY, NEWBIT, COMMITTING}
            /\ skToData[sk]["accountId"] \in accounts
            /\ IsCommitCreate(sk, id)
            => /\ skToStatus'[sk] = {DESTROYED, DIRTY}
               /\ skToId'[sk] = id
               /\ Has(destroyed', sk)]_vars
    /\ [][\A sk \in Minted :
            /\ skToStatus[sk] = {DESTROYED, DIRTY}
            /\ Has(destroyed, sk) /\ Val(destroyed, sk) = 0
            /\ skToId[sk] # NoId
            /\ openCommits' = openCommits + 1
            => [sk |-> sk, id |-> skToId[sk]] \in sent'.destroy]_vars
    /\ [](\A d \in sent.destroy : d.id # NoId)

\* This step is the source's sourceDidDestroyRecords(a, T, [id]).
IsDestroyRecords(a, id) ==
    /\ steps' = steps + 1
    /\ Becomes(SourceDidDestroyRecords(Store, a, id),
               "sourceDidDestroyRecords",
               SourceDidDestroyRecords(Store, a, id).key, NoPre, 1)

\* The id of account a maps to sk, and sk maps back to the id.
StillItsId(a, id, sk) ==
    /\ a \in accounts
    /\ idToSK[a][id] = sk
    /\ skToId[sk] = id
    /\ NEWBIT \notin skToStatus[sk]

\* C28: sourceDidDestroyRecords(a, T, [id]) leaves status and data of every
\* record alone but the one the id maps to, and that one too unless its
\* store key maps back to the id (a record whose id a partial update has
\* replaced stays as it is on a destroy for the old id); the record whose
\* store key maps back to the id is set DESTROYED and unloaded, or kept
\* DESTROYED with its data if its record instance has observers.
C28_DestroyChecksReverseMapping ==
    [][\A a \in Accounts, id \in Ids :
        IsDestroyRecords(a, id) =>
            \A sk \in Minted :
                IF StillItsId(a, id, sk)
                THEN IF skToRecord[sk] /\ hasObs[sk]
                     THEN /\ skToStatus'[sk] = {DESTROYED}
                          /\ skToData'[sk] = skToData[sk]
                     ELSE /\ skToStatus'[sk] = {}
                          /\ ~IsDef(skToData'[sk])
                ELSE /\ skToStatus'[sk] = skToStatus[sk]
                     /\ skToData'[sk] = skToData[sk]]_vars

\* A record whose id was replaced by a partial update (the old id still
\* maps to it) has been destroyed through its new id and is unloaded.
C28_Witness ==
    \E a \in accounts, old \in Ids, new \in Ids, sk \in Minted :
        /\ old # new
        /\ idToSK[a][old] = sk /\ idToSK[a][new] = sk
        /\ skToId[sk] = new
        /\ skToStatus[sk] = {}
        /\ ~IsDef(skToData[sk])
        /\ last.op = "other"
        /\ steps = MaxSteps

\* This step is sourceDidFetchRecords(a, T, records, undefined, true), with
\* records holding rec or nothing.
IsFetchAll(a, rec) ==
    /\ steps' = steps + 1
    /\ a \in accounts
    /\ Becomes(SourceDidFetchRecords(Store, a, rec, NoState, TRUE),
               "sourceDidFetchRecords",
               SourceDidFetchRecords(Store, a, rec, NoState, TRUE).key,
               NoPre, 1)

\* The store key getStoreKey gives for the record of the response.
InResponse(a, rec, sk) == rec # NoRecord /\ idToSK[a][rec.id] = sk

\* READY, not NEW, of the account and absent from the response.
Swept(a, rec, sk) ==
    /\ READY \in skToStatus[sk]
    /\ NEWBIT \notin skToStatus[sk]
    /\ skToData[sk]["accountId"] = a
    /\ ~InResponse(a, rec, sk)

\* C29: sourceDidFetchRecords(a, T, records, state, true) destroys (status
\* DESTROYED, or unloaded) every record that is READY, not NEW, of account a
\* and absent from records, leaves status and data of every other record
\* that is not in records as they were, and leaves a READY record that is
\* in records READY.
C29_FetchAllDestroysTheMissing ==
    [][\A a \in Accounts, rec \in Records \cup {NoRecord} :
        IsFetchAll(a, rec) =>
            \A sk \in Minted :
                /\ Swept(a, rec, sk)
                       => skToStatus'[sk] \in {{}, {DESTROYED}}
                /\ (~Swept(a, rec, sk) /\ ~InResponse(a, rec, sk))
                       => /\ skToStatus'[sk] = skToStatus[sk]
                          /\ skToData'[sk] = skToData[sk]
                /\ (InResponse(a, rec, sk) /\ READY \in skToStatus[sk])
                       => READY \in skToStatus'[sk]]_vars

\* C30: in every state and for every sourceDidFetchUpdates(a, T, [c], [d],
\* old, new) of distinct ids: if old is the stored clientState, clientState
\* becomes new, the READY record of c gains OBSOLETE, the record that d
\* maps to (and that maps back to d) ends DESTROYED or unloaded, and no
\* other record changes status; if old is not the stored clientState, no
\* clientState, no record status and no data changes.
C30_UpdatesApplyOnlyOnTheirBase ==
    \A a \in accounts, c \in Ids \cup {NoId}, d \in Ids \cup {NoId},
       old \in States, new \in States :
        LET R == SourceDidFetchUpdates(Store, a, c, d, old, new) IN
        ((c = NoId \/ c # d) /\ ~R.over) =>
            IF old = clientState[a]
            THEN /\ R.clientState[a] = new
                 /\ \A sk \in Minted :
                      /\ (/\ c # NoId
                          /\ idToSK[a][c] = sk
                          /\ READY \in skToStatus[sk])
                         => R.skToStatus[sk] = skToStatus[sk] \cup {OBSOLETE}
                      /\ (d # NoId /\ StillItsId(a, d, sk))
                         => R.skToStatus[sk] \in {{}, {DESTROYED}}
                      /\ (/\ c = NoId \/ idToSK[a][c] # sk
                          /\ d = NoId \/ idToSK[a][d] # sk)
                         => R.skToStatus[sk] = skToStatus[sk]
            ELSE /\ R.clientState = clientState
                 /\ R.skToStatus = skToStatus
                 /\ R.skToData = skToData

\* The client was at s1; an update from s1 to s2 has marked a committed
\* record OBSOLETE, and an update computed from s1 would now be refused.
C30_Witness ==
    \E sk \in Minted :
        /\ clientState["A"] = "s2"
        /\ skToStatus[sk] = {READY, OBSOLETE}
        /\ skToId[sk] # NoId
        /\ last.op = "other"
        /\ SourceDidFetchUpdates(Store, "A", NoId, skToId[sk], "s1", "s2").skToStatus
               = skToStatus

\* The composition of the outstanding preemptive updates, and the update of
\* the source normalised against it.
AllPreemptives == Composed(preemptiveUpdates, Len(preemptiveUpdates))
Normalised(update) ==
    NormaliseAgainst(WQuery, AllPreemptives, MappedUpdate(update))
NonEmptyUpdate(N) ==
    Len(N.removedStoreKeys) > 0 \/ Len(N.addedStoreKeys) > 0
\* The update starts from the query's queryState and, normalised, equals
\* the composition of a prefix of the outstanding preemptive updates.
Confirms(update) ==
    /\ update.oldQueryState = queryState
    /\ Len(preemptiveUpdates) > 0
    /\ \E i \in 1..Len(preemptiveUpdates) :
           UpdateIsEqual(Normalised(update), Composed(preemptiveUpdates, i))

\* No packet of queryState q is waiting.
NoPacketOf(q) ==
    \A i \in DOMAIN waitingPackets : waitingPackets[i].queryState # q

\* C21, as stated: in every state, a sourceDidFetchUpdate whose update starts
\* from the query's queryState and, normalised against the outstanding
\* preemptive updates, equals the composition of a prefix of them leaves the
\* list as it is, makes queryState the update's newQueryState and fires no
\* query:updated event.
C21_ConfirmedDeltaLeavesTheList ==
    \A update \in SourceUpdates :
        Confirms(update) =>
            LET R == SourceDidFetchUpdate(WQuery, update) IN
            /\ R.storeKeys = storeKeys
            /\ R.queryState = update.newQueryState
            /\ R.fired = 0

\* C21, amended: the same holds (and length and the windows stay, and the
\* preemptive updates left are a suffix of those outstanding) when no packet
\* of the update's newQueryState is waiting and the query is DIRTY or the
\* update is not empty and equals the composition of all the outstanding
\* preemptive updates.
C21_ConfirmedDeltaLeavesTheListWhenDirty ==
    \A update \in SourceUpdates :
        (/\ Confirms(update)
         /\ NoPacketOf(update.newQueryState)
         /\ \/ DIRTY \in queryStatus
            \/ /\ NonEmptyUpdate(Normalised(update))
               /\ UpdateIsEqual(Normalised(update), AllPreemptives))
        => LET R == SourceDidFetchUpdate(WQuery, update) IN
           /\ R.storeKeys = storeKeys
           /\ R.length = length
           /\ R.windows = windows
           /\ R.queryState = update.newQueryState
           /\ R.fired = 0
           /\ \E i \in 0..Len(preemptiveUpdates) :
                  R.preemptives = SubSeq(preemptiveUpdates, i + 1,
                                         Len(preemptiveUpdates))

\* The list was [sk1, sk2, sk3] at 's1'; sk2 was removed preemptively and an
\* update to 's2' has confirmed it: no event, no preemptive update left.
C21_Witness ==
    /\ last.op = "sourceDidFetchUpdate"
    /\ queryState = "s2"
    /\ storeKeys = <<1, 3>>
    /\ length = 2
    /\ preemptiveUpdates = <<>>
    /\ updatedEvents = 0
    /\ DIRTY \in queryStatus

\* The update starts from the query's queryState, leads to another, and,
\* normalised against the outstanding preemptive updates, is not empty and
\* equals the composition of no prefix of them.
Contradicts(update) ==
    /\ update.oldQueryState = queryState
    /\ update.newQueryState # queryState
    /\ Len(preemptiveUpdates) > 0
    /\ NonEmptyUpdate(Normalised(update))
    /\ \A i \in 1..Len(preemptiveUpdates) :
           ~UpdateIsEqual(Normalised(update), Composed(preemptiveUpdates, i))
\* The update applied to the list as it was before the outstanding
\* preemptive updates.
Direct(update) ==
    ApplyUpdate(Before, NormaliseUpdate(Before, MappedUpdate(update)))

\* C22, as stated: in every state, a sourceDidFetchUpdate whose update,
\* normalised, is not empty and equals no composition of a prefix of the
\* outstanding preemptive updates leaves no preemptive update and makes the
\* list what the update applied to the list before those preemptive updates
\* gives.
C22_ContradictedPreemptivesAreUndone ==
    \A update \in SourceUpdates :
        (beforePreemptives.known /\ Contradicts(update)) =>
            LET R == SourceDidFetchUpdate(WQuery, update) IN
            /\ R.preemptives = <<>>
            /\ R.storeKeys = Direct(update).storeKeys

\* C22, amended: the same holds (and length is that of the update applied,
\* and queryState the update's newQueryState) when no packet of the
\* update's newQueryState is waiting.
C22_ContradictedPreemptivesAreUndoneWhenNoPacketWaits ==
    \A update \in SourceUpdates :
        (/\ beforePreemptives.known
         /\ Contradicts(update)
         /\ NoPacketOf(update.newQueryState))
        => LET R == SourceDidFetchUpdate(WQuery, update) IN
           /\ R.preemptives = <<>>
           /\ R.storeKeys = Direct(update).storeKeys
           /\ R.length = Direct(update).length
           /\ R.queryState = update.newQueryState

\* The list was [sk1, sk2, sk3] at 's1'; one preemptive update was made and
\* the update to 's3' (id3 removed, id4 added at 2, total 3), which is not
\* that update, was applied: [sk1, sk2, sk4] and no preemptive update left.
C22_Witness ==
    /\ last.op = "sourceDidFetchUpdate"
    /\ steps = 2
    /\ DIRTY \in queryStatus
    /\ updatedEvents = 1
    /\ queryState = "s3"
    /\ storeKeys = <<1, 2, 4>>
    /\ length = 3
    /\ preemptiveUpdates = <<>>

\* The packet is of another queryState than the query's, which has one.
Stale(args) == queryState # "" /\ args.queryState # queryState
\* The query with no packet waiting.
NoneWaiting == [WQuery EXCEPT !.waitingPackets = <<>>]
\* R is what R0 is, but for packets that wait as they did before the call.
AsWithNoneWaiting(R, R0) ==
    /\ R.waitingPackets \in {<<>>, waitingPackets}
    /\ [R EXCEPT !.waitingPackets = <<>>] = R0

\* C23: in every state, (1) sourceDidFetchIds with a packet of another
\* queryState than the query's appends the packet to the waiting packets
\* and sets OBSOLETE, and changes nothing else; (2) no waiting packet is of
\* the query's queryState; (3) a call after which no waiting packet is of
\* the query's queryState gives what it gives with no packet waiting, and
\* clientDidGenerateUpdate leaves none waiting; (4) a call after which a
\* packet that waited is of the query's queryState is a sourceDidFetchUpdate
\* that started from the query's queryState and led to the packet's: no
\* packet waits after it and, when no preemptive update was outstanding, the
\* store keys of the packet's ids are in the list at the packet's position.
C23_StalePacketWaitsForItsQueryState ==
    /\ \A args \in Packets :
           IF Stale(args)
           THEN SourceDidFetchIds(WQuery, args)
                  = [WQuery EXCEPT !.waitingPackets = Append(@, args),
                                   !.status = @ \cup {OBSOLETE}]
           ELSE LET R == SourceDidFetchIds(WQuery, args) IN
                /\ R.waitingPackets = waitingPackets
                /\ AsWithNoneWaiting(R, SourceDidFetchIds(NoneWaiting, args))
    /\ NoPacketOf(queryState)
    /\ \A update \in ClientUpdates :
           LET R == ClientDidGenerateUpdate(WQuery, update) IN
           /\ R.waitingPackets = <<>>
           /\ R = ClientDidGenerateUpdate(NoneWaiting, update)
    /\ \A hasChanges \in BOOLEAN :
           LET R == SourceWillFetchQuery(WQuery, hasChanges) IN
           /\ R.waitingPackets = waitingPackets
           /\ AsWithNoneWaiting(R, SourceWillFetchQuery(NoneWaiting,
                                                        hasChanges))
    /\ \A update \in SourceUpdates :
           LET R == SourceDidFetchUpdate(WQuery, update) IN
           IF NoPacketOf(R.queryState)
           THEN AsWithNoneWaiting(R, SourceDidFetchUpdate(NoneWaiting,
                                                          update))
           ELSE /\ update.oldQueryState = queryState
                /\ update.newQueryState = R.queryState
                /\ R.queryState # queryState
                /\ R.waitingPackets = <<>>
                /\ preemptiveUpdates = <<>> =>
                       \A k \in DOMAIN waitingPackets :
                           waitingPackets[k].queryState = R.queryState =>
                               \A i \in DOMAIN waitingPackets[k].ids :
                                   At(R.storeKeys,
                                      waitingPackets[k].position + i - 1)
                                     = ToStoreKey(waitingPackets[k].ids[i])

\* A packet of 's3' arrived while the query was at 's1' with its three
\* store keys: the packet waits, the query is OBSOLETE and the list is as
\* it was.
C23_Witness ==
    /\ last.op = "sourceDidFetchIds"
    /\ queryState = "s1"
    /\ storeKeys = <<1, 2, 3>>
    /\ length = 3
    /\ OBSOLETE \in queryStatus
    /\ Len(waitingPackets) = 1
    /\ waitingPackets[1].queryState = "s3"

\* The store keys of a list, and whether the comparator with its tie-break
\* orders them as Array#sort requires of a comparator (transitively).
Listed31(list) == {list[i] : i \in DOMAIN list}
ConsistentOn(sort, sks) ==
    \A a \in sks, b \in sks, c \in sks :
        CompareStoreKeys(Store, sort, a, b) < 0
        /\ CompareStoreKeys(Store, sort, b, c) < 0
        => CompareStoreKeys(Store, sort, a, c) < 0
\* The records fetch is to find: those of the type whose status has READY
\* and whose data the query's where accepts.
ReadyMatches ==
    {sk \in Minted : READY \in skToStatus[sk]
                     /\ Accept(localQuery.where, skToData[sk])}
\* list holds each of sks once, in the order of the query's sort, a tie going
\* to the lower store key.
InSortOrder(list) ==
    \A i \in DOMAIN list, j \in DOMAIN list :
        i < j =>
            LET c == Compare(localQuery.sort, skToData[list[i]],
                             skToData[list[j]])
            IN c < 0 \/ (c = 0 /\ list[i] < list[j])

\* C31: in every state and for fetch(force) with either value of force, the
\* query recomputes exactly when it is forced, EMPTY or OBSOLETE and some
\* account's status of the type has READY, and keeps its list otherwise; the
\* recomputed list holds, each once, exactly the store keys whose status has
\* READY (so none that is EMPTY, NON_EXISTENT, DESTROYED or unloaded, and
\* every NEW or DIRTY one that is READY) and whose data where accepts, in the
\* order of sort with ties going to the lower store key (for a sort that
\* orders them transitively), and a second fetch on the same store gives the
\* same list.
C31_FetchGivesTheReadyMatchesInOrder ==
    localQuery.made =>
        \A force \in BOOLEAN :
            LET R == Fetch(Store, localQuery, force)
                due == force \/ localQuery.status = {EMPTY}
                       \/ OBSOLETE \in localQuery.status
            IN /\ R.recomputed <=>
                      due /\ \E a \in accounts : READY \in typeStatus[a]
               /\ ~R.recomputed => R.storeKeys = localQuery.storeKeys
               /\ R.recomputed =>
                      /\ Listed31(R.storeKeys) = ReadyMatches
                      /\ Len(R.storeKeys) = Cardinality(ReadyMatches)
                      /\ \A sk \in Listed31(R.storeKeys) :
                             /\ skToStatus[sk] \cap {EMPTY, NON_EXISTENT,
                                                     DESTROYED} = {}
                             /\ IsDef(skToData[sk])
                      /\ localQuery.sort # "none"
                         /\ ConsistentOn(localQuery.sort, ReadyMatches)
                         => InSortOrder(R.storeKeys)
                      /\ Fetch(Store, R, TRUE).storeKeys = R.storeKeys
\* A query sorted by '-a' has recomputed: the record with 'v2', which is
\* DIRTY, is listed before the older record with 'v1'.
C31_Witness ==
    /\ localQuery.recomputed
    /\ localQuery.sort = "-a"
    /\ localQuery.storeKeys = <<2, 1>>
    /\ DIRTY \in skToStatus[2]
    /\ localQuery.storeKeys = FindAll(Store, localQuery.where, "-a")

\* The members of a set of numbers in ascending order.
RECURSIVE Ascending(_)
Ascending(S) ==
    IF S = {} THEN <<>>
    ELSE LET m == CHOOSE x \in S : \A y \in S : x <= y
         IN <<m>> \o Ascending(S \ {m})
\* The sequences of n distinct members of S.
RECURSIVE Arrangements(_, _)
Arrangements(S, n) ==
    IF n = 0 THEN {<<>>}
    ELSE UNION {{<<x>> \o p : p \in Arrangements(S \ {x}, n - 1)} : x \in S}
\* The list has no hole.
GapFree(list) == \A i \in DOMAIN list : list[i] # 0
\* The store keys of list that are not at the indexes R.
Remaining(list, R) ==
    {list[i] : i \in {j \in DOMAIN list : (j - 1) \notin R}}
\* The normalised update that removes the indexes R of list and adds the
\* store keys p at the indexes A of the list that results.
UpdateOf(list, R, A, p) ==
    [removedIndexes |-> Ascending(R),
     removedStoreKeys |-> [i \in 1..Cardinality(R) |->
                              list[Ascending(R)[i] + 1]],
     addedIndexes |-> Ascending(A), addedStoreKeys |-> p,
     truncateAtFirstGap |-> FALSE,
     total |-> Len(list) - Cardinality(R) + Cardinality(A), upToId |-> 0]
\* The normalised updates that are valid on a gap-free list: up to MaxChange
\* of its indexes removed, with the store keys at them, and up to MaxChange
\* store keys that are not in what remains added at indexes of the list that
\* results, the indexes ascending, the total the length that results.
ValidUpdates(list) ==
    UNION {UNION {UNION {
        {UpdateOf(list, R, A, p) :
            p \in Arrangements((1..MaxSourceKeys) \ Remaining(list, R),
                               Cardinality(A))}
        : A \in {B \in SUBSET (0..(Len(list) - Cardinality(R) + k - 1)) :
                    Cardinality(B) = k}}
        : k \in 0..MaxChange}
        : R \in {X \in SUBSET (0..(Len(list) - 1)) :
                    Cardinality(X) <= MaxChange}}
\* u1 and then u2 leave the list and length that their composition leaves.
ComposesOn(Q, u1, u2) ==
    LET one == ApplyUpdate(Q, u1)
        two == ApplyUpdate(one, u2)
        both == ApplyUpdate(Q, ComposeUpdates(u1, u2))
    IN two.storeKeys = both.storeKeys /\ two.length = both.length
\* The same for every update valid on the list u1 leaves.
ComposesWithAll(Q, u1) ==
    \A u2 \in ValidUpdates(ApplyUpdate(Q, u1).storeKeys) :
        ComposesOn(Q, u1, u2)

\* C32: in every state where the list is gap-free, for every normalised
\* update u1 valid on it and every normalised update u2 valid on the list u1
\* leaves, _applyUpdate(composeUpdates(u1, u2)) leaves the same list and the
\* same length as _applyUpdate(u1) followed by _applyUpdate(u2).
C32_ComposedUpdateIsBothUpdates ==
    GapFree(storeKeys) /\ Len(storeKeys) = length =>
        \A u1 \in ValidUpdates(storeKeys) : ComposesWithAll(Query, u1)

\* Two preemptive updates were applied one after the other to a gap-free
\* list, the first removing a store key and the second adding one, and the
\* list is the one their composition makes of the list they started from.
C32_Witness ==
    /\ beforePreemptives.known
    /\ GapFree(beforePreemptives.storeKeys)
    /\ Len(beforePreemptives.storeKeys) = beforePreemptives.length
    /\ Len(preemptiveUpdates) = 2
    /\ preemptiveUpdates[1].removedStoreKeys # <<>>
    /\ preemptiveUpdates[2].addedStoreKeys # <<>>
    /\ last.op = "clientDidGenerateUpdate"
    /\ storeKeys = ApplyUpdate(Before, ComposeUpdates(preemptiveUpdates[1],
                                                     preemptiveUpdates[2])
                              ).storeKeys

\* The update is for the queryState the query already has.
AlreadyHas(update) == update.newQueryState = queryState

\* C33: in every state and for every update of the source whose
\* newQueryState is the query's queryState, sourceDidFetchUpdate, when
\* preemptive updates are outstanding and the query is not DIRTY, empties the
\* stack and leaves the list and the length that the query had before the
\* preemptive updates; when the query is DIRTY or no preemptive update is
\* outstanding it leaves list, length and stack as they are.  And on a list
\* that is whole and gap-free, _applyUpdate(u) followed by
\* _applyUpdate(invertUpdate(u)) leaves the list and the length as they were,
\* for every normalised update u valid on the list.
C33_SameQueryStateUndoesPreemptives ==
    /\ GapFree(storeKeys) /\ Len(storeKeys) = length =>
           \A u \in ValidUpdates(storeKeys) :
               LET B == ApplyUpdate(ApplyUpdate(Query, u), InvertUpdate(u))
               IN B.storeKeys = storeKeys /\ B.length = length
    /\ \A update \in SourceUpdates :
        AlreadyHas(update) =>
            LET R == SourceDidFetchUpdate(WQuery, update) IN
            IF preemptiveUpdates # <<>> /\ DIRTY \notin queryStatus
            THEN /\ R.preemptives = <<>>
                 /\ beforePreemptives.known =>
                        /\ R.storeKeys = beforePreemptives.storeKeys
                        /\ R.length = beforePreemptives.length
            ELSE /\ R.storeKeys = storeKeys
                 /\ R.length = length
                 /\ R.preemptives = preemptiveUpdates
\* sourceDidFetchUpdate has undone the preemptive removal of sk2: the query
\* is at 's1' as before, has fired query:updated, the stack is empty and the
\* list is the source's again.
C33_Witness ==
    /\ last.op = "sourceDidFetchUpdate"
    /\ queryState = "s1"
    /\ updatedEvents = 1
    /\ preemptiveUpdates = <<>>
    /\ DIRTY \notin queryStatus
    /\ storeKeys = <<1, 2, 3>>
    /\ length = 3

\* The update starts from a queryState the query does not have, and does not
\* lead to the one it has.
Foreign(update) ==
    update.oldQueryState # queryState /\ update.newQueryState # queryState

\* C34: in every state and for every update of the source whose oldQueryState
\* and newQueryState both differ from the query's queryState,
\* sourceDidFetchUpdate applies nothing: the list, length, queryState, the
\* windows, the preemptive stack and the waiting packets are as before, no
\* query:updated event is fired, and the query's status has OBSOLETE.
C34_ForeignUpdateOnlyMakesObsolete ==
    \A update \in SourceUpdates :
        Foreign(update) =>
            LET R == SourceDidFetchUpdate(WQuery, update) IN
            /\ R.storeKeys = storeKeys
            /\ R.length = length
            /\ R.queryState = queryState
            /\ R.windows = windows
            /\ R.preemptives = preemptiveUpdates
            /\ R.waitingPackets = waitingPackets
            /\ R.fired = 0
            /\ OBSOLETE \in R.status
            /\ R.status \ {OBSOLETE} = queryStatus \ {LOADING, OBSOLETE}
\* sourceDidFetchUpdate was handed the update from 's2' to 's3' while the
\* query, which was not OBSOLETE before any call, is at 's1' with its list:
\* it is OBSOLETE and nothing else has changed.
C34_Witness ==
    /\ last.op = "sourceDidFetchUpdate"
    /\ steps = 1
    /\ queryState = "s1"
    /\ OBSOLETE \in queryStatus
    /\ preemptiveUpdates = <<>>
    /\ storeKeys = <<1, 2, 3>>

\* The update leads from the query's queryState to another and, normalised,
\* is not empty and equals the composition of the first k of the outstanding
\* preemptive updates; Confirmed is the largest such k.
ConfirmsSome(update) ==
    /\ Confirms(update)
    /\ update.newQueryState # queryState
    /\ NonEmptyUpdate(Normalised(update))
Confirmed(update) ==
    CHOOSE k \in 1..Len(preemptiveUpdates) :
        /\ UpdateIsEqual(Normalised(update), Composed(preemptiveUpdates, k))
        /\ \A j \in (k + 1)..Len(preemptiveUpdates) :
               ~UpdateIsEqual(Normalised(update),
                              Composed(preemptiveUpdates, j))
\* The preemptive updates after the first k.
After(k) == SubSeq(preemptiveUpdates, k + 1, Len(preemptiveUpdates))
\* The query at the update's queryState with the preemptive updates after
\* the first k, once its waiting packets have been gone through.
WithPackets(update, k) ==
    ApplyWaitingPackets([WQuery EXCEPT !.queryState = update.newQueryState,
                                       !.preemptives = After(k)])

\* C35, as stated: in every state, a sourceDidFetchUpdate whose normalised
\* update equals the composition of the first k outstanding preemptive
\* updates leaves the others on the stack in their order and applied to the
\* list, and then applies the waiting packets of the new queryState.
C35_ConfirmedPrefixLeavesTheRest ==
    \A update \in SourceUpdates :
        ConfirmsSome(update) =>
            LET R == SourceDidFetchUpdate(WQuery, update) IN
            /\ R.preemptives = After(Confirmed(update))
            /\ R.storeKeys = WithPackets(update, Confirmed(update)).storeKeys
            /\ R.length = WithPackets(update, Confirmed(update)).length

\* C35, amended: that holds when the query is DIRTY (and then no packet is
\* left waiting, and the list and length are untouched when no packet of the
\* new queryState was waiting); when the query is not DIRTY the stack is
\* left empty.
C35_ConfirmedPrefixLeavesTheRestWhenDirty ==
    \A update \in SourceUpdates :
        ConfirmsSome(update) =>
            LET R == SourceDidFetchUpdate(WQuery, update) IN
            IF DIRTY \in queryStatus
            THEN /\ R.preemptives = After(Confirmed(update))
                 /\ R.storeKeys
                      = WithPackets(update, Confirmed(update)).storeKeys
                 /\ R.length = WithPackets(update, Confirmed(update)).length
                 /\ R.waitingPackets = <<>>
                 /\ R.queryState = update.newQueryState
                 /\ NoPacketOf(update.newQueryState) =>
                        R.storeKeys = storeKeys /\ R.length = length
            ELSE R.preemptives = <<>>
\* Two preemptive updates were made and the update to 's2' confirmed the
\* first, the removal of sk2: the query is DIRTY at 's2' and the second is
\* still on the stack and in the list.
C35_Witness ==
    /\ last.op = "sourceDidFetchUpdate"
    /\ steps = 3
    /\ queryState = "s2"
    /\ DIRTY \in queryStatus
    /\ Len(preemptiveUpdates) = 1
    /\ preemptiveUpdates[1].addedStoreKeys = <<MaxSourceKeys>>
    /\ \E i \in DOMAIN storeKeys : storeKeys[i] = MaxSourceKeys
    /\ updatedEvents = 0

\* ---------------------------------------------------------------------
\* C36.  sourceDidFetchIds marks exactly the windows it has made whole.

\* The packet is merged into the list (it is not put with the waiting
\* packets): the query has no queryState yet, or the packet's.
Merges(args) == queryState = "" \/ queryState = args.queryState
\* The bits of window w of query Q; the window has every slot below length
\* defined.
WindowBits(Q, w) ==
    IF w + 1 \in DOMAIN Q.windows THEN Q.windows[w + 1] ELSE {}
WindowIsWhole(Q, w) ==
    \A i \in (w * WindowSize)..(Min((w + 1) * WindowSize, Q.length) - 1) :
        At(Q.storeKeys, i) # 0

\* C36: after sourceDidFetchIds has merged a packet, each window with a
\* slot below length has the READY bit if and only if every slot of it
\* below length is defined in storeKeys; this holds for a window the packet
\* completes together with ids that were there already, and for the last
\* window, which need not be full.
C36_ReadyWindowsAreTheWholeOnes ==
    \A args \in Packets :
        Merges(args) =>
            LET R == SourceDidFetchIds(WQuery, args) IN
            \A w \in 0..LastWindow(R.length) :
                WINDOW_READY \in WindowBits(R, w) <=> WindowIsWhole(R, w)

\* ---------------------------------------------------------------------
\* C37.  A packet merged under preemptive updates is the source's list
\* with the preemptive updates made on it.

\* The source's list at queryState q in store keys, and that list with the
\* composition of the outstanding preemptive updates applied to it.
ServerKeys(q) ==
    [i \in DOMAIN ServerList(q) |-> ToStoreKey(ServerList(q)[i])]
PreemptivesOn(q) ==
    ApplyUpdate([WQuery EXCEPT !.storeKeys = ServerKeys(q),
                               !.length = Len(ServerKeys(q)),
                               !.preemptives = <<>>],
                AllPreemptives).storeKeys
\* Every defined slot of list is the slot of PreemptivesOn(queryState).
AgreesWithSource(list) ==
    \A i \in 0..(Len(list) - 1) :
        At(list, i) # 0 => At(list, i) = At(PreemptivesOn(queryState), i)
\* The preemptive updates, composed, remove store keys where the source's
\* list has them.
RemovesFromSource ==
    \A j \in DOMAIN AllPreemptives.removedStoreKeys :
        At(ServerKeys(queryState), AllPreemptives.removedIndexes[j])
            = AllPreemptives.removedStoreKeys[j]

Quiet ==
    \A w \in Opened(WCs) : wcs[w].events = <<>> /\ ~wcs[w].checkQueued
TheLowestIsMaster ==
    \A w \in Opened(WCs) :
        wcs[w].isMaster <=> (\A v \in Opened(WCs) : ~(v < w))

\* C38: whenever every hello, ping and bye that was broadcast has been
\* handled by the open windows and every checkMaster that was put off has
\* run, exactly one open window has isMaster = true, the one with the lowest
\* id (so the lowest of the remaining windows, once the bye of a destroyed
\* master has been handled); and once no more windows open or close this
\* comes to hold and holds from then on.
C38_OneMasterTheLowestOnceQuiet ==
    /\ [](Quiet => TheLowestIsMaster)
    /\ <>[]TheLowestIsMaster

\* The window with the lowest id was master and was destroyed; the other
\* two have handled its bye and all else, and the lower of them is master.
C38_Witness ==
    /\ wcs[1].state = "closed"
    /\ wcs[1].isMaster
    /\ wcs[2].state = "open" /\ wcs[2].isMaster
    /\ wcs[3].state = "open" /\ ~wcs[3].isMaster
    /\ wcs[2].seenWCs = {3} /\ wcs[3].seenWCs = {2}
    /\ Quiet

\* ---------------------------------------------------------------------
\* C39.  The records commitChanges is to submit have their data.

\* The store keys in _created, _skToChanged and _destroyed.
PendingStoreKeys ==
    KeysOf(created) \cup KeysOf(skToChanged) \cup KeysOf(destroyed)

\* C39: every store key in the pending created, changed and destroyed sets
\* has its data in _skToData, so that commitChanges, whenever it runs, can
\* read the accountId and the id of each record it walks over: no callback
\* of the source unloads a record and leaves it in a pending set.
C39_PendingRecordsHaveData ==
    \A sk \in PendingStoreKeys : skToData[sk] # Undef

\* ---------------------------------------------------------------------
\* C40.  A move whose commit fails transiently is submitted again as a
\* move.

\* The copy of move m of the commit in flight has not been answered and
\* was not destroyed meanwhile.
MoveInFlight(m) ==
    /\ m.sk \in inflight.create
    /\ DESTROYED \notin skToStatus[m.sk]
\* The store after the source answers sourceDidNotCreate([sk], false), and
\* after the commitChanges that follows once the commit in flight is done.
FailedTransiently(sk) ==
    SourceDidNotCreate(Answered("create", sk), sk, FALSE, FALSE)
NextCommit(S) ==
    CommitChanges([S EXCEPT !.commitQueued = FALSE, !.isCommitting = FALSE])

\* C40: when the source answers sourceDidNotCreate with isPermanent false
\* for the copy of a move it was handed, the copy stays in the created set
\* as a copy of the original, and the next commit submits it under
\* moveFromAccount with the account and the id of the original, and not as
\* a create.
C40_FailedMoveIsSubmittedAgainAsMove ==
    \A m \in sent.move :
        MoveInFlight(m) =>
            LET R == FailedTransiently(m.sk) IN
            /\ Has(R.created, m.sk)
            /\ Val(R.created, m.sk) = m.from
            /\ \E n \in NextCommit(R).sent.move :
                   /\ n.sk = m.sk
                   /\ n.copyFromId = m.copyFromId
                   /\ n.fromAccount = m.fromAccount
            /\ m.sk \notin NextCommit(R).sent.create
====
